---- MODULE Spec2Model ----
(***************************************************************************)
(* Model of the content-extraction and multi-page crawl engine of          *)
(* src/lib/scraper.ts (scrapeNovel and the functions it calls).            *)
(*                                                                         *)
(* Strings are sequences of one-character strings, so that lengths,        *)
(* concatenation, trimming and the regular expressions of the source are   *)
(* computed and not assumed.                                               *)
(***************************************************************************)
EXTENDS Integers, Sequences, FiniteSets, TLC

(***************************************************************************)
(* Characters and strings                                                  *)
(***************************************************************************)
Digits == <<"0", "1", "2", "3", "4", "5", "6", "7", "8", "9">>

IsDigit(c) == \E k \in 1..10 : Digits[k] = c


UpperCase == <<"A", "B", "C", "D", "E", "F", "G", "H", "I", "J", "K", "L", "M",
               "N", "O", "P", "Q", "R", "S", "T", "U", "V", "W", "X", "Y", "Z">>

LowerCase == <<"a", "b", "c", "d", "e", "f", "g", "h", "i", "j", "k", "l", "m",
               "n", "o", "p", "q", "r", "s", "t", "u", "v", "w", "x", "y", "z">>

\* the /i flag of the regular expressions: compare lower-cased characters
Lower(c) ==
    IF \E k \in 1..26 : UpperCase[k] = c
    THEN LowerCase[CHOOSE k \in 1..26 : UpperCase[k] = c]
    ELSE c



SetMin(S) == CHOOSE x \in S : \A y \in S : x <= y

\* Number.prototype.toString() of a non-negative integer
RECURSIVE ToStr(_)
ToStr(n) == IF n < 10 THEN <<Digits[n + 1]>>
            ELSE ToStr(n \div 10) \o <<Digits[(n % 10) + 1]>>

\* parseInt(s, 10) of a non-empty run of digits
RECURSIVE ParseInt(_)
ParseInt(s) == IF Len(s) = 0 THEN 0
               ELSE 10 * ParseInt(SubSeq(s, 1, Len(s) - 1))
                    + ((CHOOSE k \in 1..10 : Digits[k] = s[Len(s)]) - 1)

\* the literal lit (lower case) occurs in s at position i, ignoring case
LitAt(s, i, lit) ==
    /\ i >= 1
    /\ i + Len(lit) - 1 <= Len(s)
    /\ \A k \in 1..Len(lit) : Lower(s[i + k - 1]) = lit[k]

\* the literal lit occurs in s at position i, case-sensitively
ExactAt(s, i, lit) ==
    /\ i >= 1
    /\ i + Len(lit) - 1 <= Len(s)
    /\ \A k \in 1..Len(lit) : s[i + k - 1] = lit[k]

\* length of the longest run of digits of s starting at position i (greedy \d+)
DigitRun(s, i) ==
    CHOOSE n \in 0..(Len(s) - i + 1) :
        /\ \A k \in 0..(n - 1) : IsDigit(s[i + k])
        /\ (i + n > Len(s) \/ ~IsDigit(s[i + n]))

\* position of the first element of s in set cs at or after i; 0 when none
IndexFrom(s, i, cs) ==
    LET hits == {k \in i..Len(s) : s[k] \in cs}
    IN IF hits = {} THEN 0 ELSE SetMin(hits)

\* String.prototype.split(sep) for a one-character separator
RECURSIVE Split(_, _)
Split(s, sep) ==
    LET k == IndexFrom(s, 1, {sep})
    IN IF k = 0 THEN <<s>>
       ELSE <<SubSeq(s, 1, k - 1)>> \o Split(SubSeq(s, k + 1, Len(s)), sep)

\* Array.prototype.join(sep)
RECURSIVE Join(_, _)
Join(parts, sep) ==
    IF Len(parts) = 0 THEN <<>>
    ELSE IF Len(parts) = 1 THEN parts[1]
    ELSE parts[1] \o sep \o Join(Tail(parts), sep)

\* Array.prototype.filter(Boolean) on an array of strings: drop the empty ones
RECURSIVE NonEmpty(_)
NonEmpty(parts) ==
    IF Len(parts) = 0 THEN <<>>
    ELSE (IF Len(parts[1]) > 0 THEN <<parts[1]>> ELSE <<>>) \o NonEmpty(Tail(parts))

\* white space removed by String.prototype.trim() (of the characters modelled)
WhiteSpace == {" ", "\t", "\n", "\r"}

Trim(s) ==
    IF \A k \in 1..Len(s) : s[k] \in WhiteSpace THEN <<>>
    ELSE LET first == CHOOSE k \in 1..Len(s) :
                          s[k] \notin WhiteSpace /\ \A j \in 1..(k - 1) : s[j] \in WhiteSpace
             back == CHOOSE d \in 0..(Len(s) - 1) :
                          /\ s[Len(s) - d] \notin WhiteSpace
                          /\ \A j \in (Len(s) - d + 1)..Len(s) : s[j] \in WhiteSpace
         IN SubSeq(s, first, Len(s) - back)

\* s with the len characters from position at replaced by repl
Splice(s, at, len, repl) ==
    SubSeq(s, 1, at - 1) \o repl \o SubSeq(s, at + len, Len(s))

\* null / undefined of the source, where a string is expected
Null == <<"null">>

\* a string value that is truthy: neither null/undefined nor ""
Truthy(s) == s # Null /\ s # <<>>

(***************************************************************************)
(* URLs: new URL(s), its hostname, pathname, searchParams and href         *)
(***************************************************************************)
sHttp == <<"h", "t", "t", "p", ":", "/", "/">>
sPage == <<"p", "a", "g", "e">>
sSlashPage == <<"/", "p", "a", "g", "e">>
sChapterNumber == <<"c", "h", "a", "p", "t", "e", "r", "N", "u", "m", "b", "e", "r">>
sDotHtml == <<".", "h", "t", "m", "l">>
sSlashP == <<"/", "p">>
sPageEq == <<"p", "a", "g", "e", "=">>

SchemeLen(s) ==
    IF LitAt(s, 1, sHttp) THEN Len(sHttp)
    ELSE IF LitAt(s, 1, <<"h", "t", "t", "p", "s", ":", "/", "/">>) THEN 8
    ELSE 0

\* the URL record of s, given the length n of its scheme, the position p of the
\* first "/" or "?" after the scheme and the position q of the first "?" after
\* it (0: there is none)
UrlRecord(s, n, p, q) ==
    LET hostEnd == IF p = 0 THEN Len(s) ELSE p - 1
        pathEnd == IF q = 0 THEN Len(s) ELSE q - 1
    IN [ok |-> n > 0 /\ hostEnd > n,
        scheme |-> [k \in 1..n |-> Lower(s[k])],
        hostname |-> [k \in 1..(hostEnd - n) |-> Lower(s[n + k])],
        pathname |-> IF p = 0 \/ p > pathEnd THEN <<"/">> ELSE SubSeq(s, p, pathEnd),
        search |-> IF q = 0 THEN <<>> ELSE SubSeq(s, q + 1, Len(s))]

\* new URL(s) for absolute http(s) URLs without port, credentials or fragment;
\* ok = FALSE stands for the TypeError the constructor throws
ParseUrl(s) ==
    UrlRecord(s, SchemeLen(s), IndexFrom(s, SchemeLen(s) + 1, {"/", "?"}),
              IndexFrom(s, SchemeLen(s) + 1, {"?"}))

\* URL.prototype.href
Href(u) ==
    u.scheme \o u.hostname \o u.pathname
        \o (IF u.search = <<>> THEN <<>> ELSE <<"?">> \o u.search)

\* one name=value pair of a query string
ParsePair(seg) ==
    LET e == IndexFrom(seg, 1, {"="})
    IN IF e = 0 THEN [name |-> seg, value |-> <<>>]
       ELSE [name |-> SubSeq(seg, 1, e - 1), value |-> SubSeq(seg, e + 1, Len(seg))]

\* the pairs of the segments of a query string
Pairs(segs) == [k \in 1..Len(segs) |-> ParsePair(segs[k])]

\* URL.prototype.searchParams: the list of name/value pairs
SearchParams(u) == Pairs(NonEmpty(Split(u.search, "&")))

\* URLSearchParams.prototype.has
ParamsHas(ps, name) == \E k \in 1..Len(ps) : ps[k].name = name

RECURSIVE DropNamed(_, _)
DropNamed(ps, name) ==
    IF Len(ps) = 0 THEN <<>>
    ELSE (IF ps[1].name = name THEN <<>> ELSE <<ps[1]>>) \o DropNamed(Tail(ps), name)

\* URLSearchParams.prototype.set: the first pair named name gets the value, the
\* others named name are removed; appended when there is none
ParamsSet(ps, name, value) ==
    IF ParamsHas(ps, name)
    THEN LET f == SetMin({k \in 1..Len(ps) : ps[k].name = name})
         IN SubSeq(ps, 1, f - 1) \o <<[name |-> name, value |-> value]>>
                \o DropNamed(SubSeq(ps, f + 1, Len(ps)), name)
    ELSE Append(ps, [name |-> name, value |-> value])

\* the query string a URLSearchParams serialises to
SerializeParams(ps) ==
    Join([k \in 1..Len(ps) |-> ps[k].name \o <<"=">> \o ps[k].value], <<"&">>)

\* url.href after url.searchParams became ps
HrefWithParams(u, ps) == Href([u EXCEPT !.search = SerializeParams(ps)])

\* url.href after url.pathname = pathname
HrefWithPath(u, pathname) == Href([u EXCEPT !.pathname = pathname])

(***************************************************************************)
(* extractPageNumber                                                       *)
(***************************************************************************)
\* the least position of a set of positions where 0 stands for "no match"
FirstPos(ds) == IF ds \ {0} = {} THEN 0 ELSE SetMin(ds \ {0})

\* the first element of a tuple of positions that is not 0, 0 when all are
FirstNonZero(ds) ==
    LET hits == {k \in 1..Len(ds) : ds[k] # 0}
    IN IF hits = {} THEN 0 ELSE ds[SetMin(hits)]

\* the digits (\d+) captured from position d of s, Null when d = 0 (no match)
DigitsFrom(s, d) == IF d = 0 THEN Null ELSE SubSeq(s, d, d + DigitRun(s, d) - 1)

\* Position of the first digit of the capture group when the pattern
\*   [pre] lit [sep] (\d+)
\* matches s at position i, 0 otherwise. pre and sep are character classes; an
\* empty class means the pattern has none there. lit is matched ignoring case.
NumAt(s, i, pre, lit, sep) ==
    LET j0 == IF pre = {} THEN i ELSE i + 1
        j1 == j0 + Len(lit)
        j2 == IF sep = {} THEN j1 ELSE j1 + 1
    IN IF /\ i >= 1
          /\ (pre = {} \/ (i <= Len(s) /\ s[i] \in pre))
          /\ LitAt(s, j0, lit)
          /\ (sep = {} \/ (j1 <= Len(s) /\ s[j1] \in sep))
          /\ j2 <= Len(s)
          /\ IsDigit(s[j2])
       THEN j2 ELSE 0

\* leftmost position where the pattern matches s, 0 when none
NumMatchPos(s, pre, lit, sep) ==
    FirstPos({IF NumAt(s, i, pre, lit, sep) > 0 THEN i ELSE 0 : i \in 1..Len(s)})

\* the capture group of the leftmost match of the pattern in s, Null when none
NumCapture(s, pre, lit, sep) ==
    DigitsFrom(s, NumAt(s, NumMatchPos(s, pre, lit, sep), pre, lit, sep))

\* s ends, at position j, with .htm or .html (\.html?$ with the i flag)
HtmlSuffixAt(s, j) ==
    \/ (LitAt(s, j, sDotHtml) /\ j + Len(sDotHtml) - 1 = Len(s))
    \/ (LitAt(s, j, <<".", "h", "t", "m">>) /\ j + 3 = Len(s))

\* positions i where (\d+)\.html?$ matches: a digit run reaching the suffix
DigitsHtmlAt(s, i) ==
    /\ i >= 1 /\ i <= Len(s)
    /\ IsDigit(s[i])
    /\ HtmlSuffixAt(s, i + DigitRun(s, i))

\* leftmost position where (\d+)\.html?$ matches s, 0 when none
HtmlNumPos(s) == FirstPos({IF DigitsHtmlAt(s, i) THEN i ELSE 0 : i \in 1..Len(s)})

\* leftmost position where [cs](\d+)\.html?$ matches s, 0 when none
SepHtmlNumPos(s, cs) ==
    FirstPos({IF s[i] \in cs /\ DigitsHtmlAt(s, i + 1) THEN i ELSE 0 : i \in 1..Len(s)})

\* the capture of /[_-](\d+)\.html?$/i
SuffixNumCapture(s) ==
    IF SepHtmlNumPos(s, {"_", "-"}) = 0 THEN Null
    ELSE DigitsFrom(s, SepHtmlNumPos(s, {"_", "-"}) + 1)

\* the captures of the patterns of extractPageNumber, in order; Null: no match
PageNumberCaptures(url) ==
    << NumCapture(url, {"?", "&"},
                  <<"c", "h", "a", "p", "t", "e", "r", "n", "u", "m", "b", "e", "r">>,
                  {"=", "_"}),
       NumCapture(url, {"?", "&"}, sPage, {"=", "_"}),
       NumCapture(url, {}, sSlashPage, {"/", "_", "-"}),
       SuffixNumCapture(url),
       NumCapture(url, {}, sSlashP, {}) >>

\* extractPageNumber(url): the number, or -1 for null
NoNumber == -1

\* parseInt of the capture of the first pattern that matched
FirstCaptureNumber(captures) ==
    LET hits == {k \in 1..Len(captures) : captures[k] # Null}
    IN IF hits = {} THEN NoNumber ELSE ParseInt(captures[SetMin(hits)])

extractPageNumber(url) == FirstCaptureNumber(PageNumberCaptures(url))

(***************************************************************************)
(* constructNextPageUrl                                                    *)
(***************************************************************************)
\* leftmost position where /\/page[\/_-](\d+)/i matches the pathname, 0 when none
PageSegPos(path) == NumMatchPos(path, {}, sSlashPage, {"/", "_", "-"})

\* pathname.replace(/\/page[\/_-](\d+)/i, `/page/${nextPage}`), matched at i
ReplacePageSeg(path, i, next) ==
    Splice(path, i, Len(sSlashPage) + 1 + DigitRun(path, i + Len(sSlashPage) + 1),
           sSlashPage \o <<"/">> \o next)

\* pathname.replace(/(\d+)\.html?$/i, tail) and
\* pathname.replace(/_(\d+)\.html?$/i, tail), matched at i
ReplaceHtmlNumber(path, i, tail) == Splice(path, i, Len(path) - i + 1, tail)

\* the patterns of constructNextPageUrl on the parsed URL url, with its
\* searchParams ps, its pathname path and next = String(nextPage)
ConstructByPattern(url, ps, path, currentPage, next) ==
    IF ParamsHas(ps, sChapterNumber)                 \* Pattern 1
    THEN HrefWithParams(url, ParamsSet(ps, sChapterNumber, next))
    ELSE IF ParamsHas(ps, sPage)                     \* Pattern 2
    THEN HrefWithParams(url, ParamsSet(ps, sPage, next))
    ELSE IF PageSegPos(path) # 0                     \* Pattern 3
    THEN HrefWithPath(url, ReplacePageSeg(path, PageSegPos(path), next))
    ELSE IF HtmlNumPos(path) # 0                     \* Pattern 4
    THEN HrefWithPath(url, ReplaceHtmlNumber(path, HtmlNumPos(path), next \o sDotHtml))
    ELSE IF SepHtmlNumPos(path, {"_"}) # 0           \* Pattern 5
    THEN HrefWithPath(url, ReplaceHtmlNumber(path, SepHtmlNumPos(path, {"_"}),
                                             <<"_">> \o next \o sDotHtml))
    ELSE IF /\ currentPage = 1                       \* Pattern 6
            /\ ~ParamsHas(ps, sPage)
            /\ ~ParamsHas(ps, sChapterNumber)
    THEN HrefWithParams(url, ParamsSet(ps, sPage, next))
    ELSE Null

\* the try block on url = new URL(currentUrl); the catch returns null
ConstructFrom(url, currentPage, next) ==
    IF ~url.ok THEN Null
    ELSE ConstructByPattern(url, SearchParams(url), url.pathname, currentPage, next)

constructNextPageUrl(currentUrl, currentPage, nextPage) ==
    ConstructFrom(ParseUrl(currentUrl), currentPage, ToStr(nextPage))

(***************************************************************************)
(* isSameChapter                                                           *)
(***************************************************************************)
ChapterSeps == {"/", "_", "-"}

\* first digit of the capture of /(?:chapter|ch)[\/_-]?(\d+)/i matched at i, or 0
ChapterNumAt(s, i) ==
    FirstNonZero(<< NumAt(s, i, {}, <<"c", "h", "a", "p", "t", "e", "r">>, ChapterSeps),
                    NumAt(s, i, {}, <<"c", "h", "a", "p", "t", "e", "r">>, {}),
                    NumAt(s, i, {}, <<"c", "h">>, ChapterSeps),
                    NumAt(s, i, {}, <<"c", "h">>, {}) >>)

\* path.match(/(?:chapter|ch)[\/_-]?(\d+)/i): the capture [1], Null when no match
ChapterCapture(path) ==
    DigitsFrom(path, ChapterNumAt(path,
        FirstPos({IF ChapterNumAt(path, i) > 0 THEN i ELSE 0 : i \in 1..Len(path)})))

\* s without its characters from position i on; s itself when i = 0
CutFrom(s, i) == IF i = 0 THEN s ELSE SubSeq(s, 1, i - 1)

\* path.replace(/[_-]?\d+\.html?$/i, "")
StripHtmlNumber(path) ==
    CutFrom(path, FirstPos({SepHtmlNumPos(path, {"_", "-"}), HtmlNumPos(path)}))

\* s without the match of /[?&]page=\d+/i at position i; s itself when i = 0
CutPageParam(s, i) ==
    IF i = 0 THEN s
    ELSE Splice(s, i, 1 + Len(sPageEq) + DigitRun(s, i + 1 + Len(sPageEq)), <<>>)

\* path.replace(/[?&]page=\d+/i, ""): the first match removed
StripPageParam(path) == CutPageParam(path, NumMatchPos(path, {"?", "&"}, sPageEq, {}))

BasePath(path) == StripPageParam(StripHtmlNumber(path))

\* part.match(/\d+/)
HasDigit(part) == \E k \in 1..Len(part) : IsDigit(part[k])

\* path1Parts.filter((part, i) => path2Parts[i] && (part === path2Parts[i] ||
\*   part.match(/\d+/) && path2Parts[i].match(/\d+/))).length
MatchingParts(parts1, parts2) ==
    Cardinality({i \in 1..Len(parts1) :
        /\ i <= Len(parts2)
        /\ Len(parts2[i]) > 0
        /\ (parts1[i] = parts2[i] \/ (HasDigit(parts1[i]) /\ HasDigit(parts2[i])))})

\* the comparison of the path parts at the end of isSameChapter
SimilarParts(path1Parts, path2Parts) ==
    IF Len(path1Parts) - Len(path2Parts) > 1 \/ Len(path2Parts) - Len(path1Parts) > 1
    THEN FALSE
    ELSE IF 2 * MatchingParts(path1Parts, path2Parts) < Len(path1Parts)
            /\ 2 * MatchingParts(path1Parts, path2Parts) < Len(path2Parts)
    THEN FALSE
    ELSE TRUE

\* a variant of the comparisons that does not look at the chapter numbers
SamePathsBaseOnly(chapterPattern1, chapterPattern2, basePath1, basePath2) ==
    IF basePath1 = basePath2 THEN TRUE
    ELSE SimilarParts(NonEmpty(Split(basePath1, "/")), NonEmpty(Split(basePath2, "/")))

\* the comparisons of isSameChapter on two different pathnames of one host
SamePaths(chapterPattern1, chapterPattern2, basePath1, basePath2) ==
    IF chapterPattern1 # Null /\ chapterPattern2 # Null
    THEN chapterPattern1 = chapterPattern2
    ELSE IF chapterPattern1 # Null \/ chapterPattern2 # Null
    THEN basePath1 = basePath2
    ELSE IF basePath1 = basePath2 THEN TRUE
    ELSE SimilarParts(NonEmpty(Split(basePath1, "/")), NonEmpty(Split(basePath2, "/")))

\* a variant of isSameChapter that does not compare the hostnames
SameChapterUrlsAnyHost(u1, u2) ==
    IF ~u1.ok \/ ~u2.ok THEN FALSE
    ELSE IF u1.pathname = u2.pathname THEN TRUE
    ELSE SamePaths(ChapterCapture(u1.pathname), ChapterCapture(u2.pathname),
                   BasePath(u1.pathname), BasePath(u2.pathname))

\* a variant of isSameChapter that takes two URLs of one path for the same
\* chapter only when their queries differ
SameChapterUrlsByQuery(u1, u2) ==
    IF ~u1.ok \/ ~u2.ok THEN FALSE
    ELSE IF u1.hostname # u2.hostname THEN FALSE
    ELSE IF u1.pathname = u2.pathname THEN u1.search # u2.search
    ELSE SamePaths(ChapterCapture(u1.pathname), ChapterCapture(u2.pathname),
                   BasePath(u1.pathname), BasePath(u2.pathname))

\* a variant of isSameChapter that lets a pair through when a URL does not parse
SameChapterUrlsLenient(u1, u2) ==
    IF ~u1.ok \/ ~u2.ok THEN TRUE
    ELSE IF u1.hostname # u2.hostname THEN FALSE
    ELSE IF u1.pathname = u2.pathname THEN TRUE
    ELSE SamePaths(ChapterCapture(u1.pathname), ChapterCapture(u2.pathname),
                   BasePath(u1.pathname), BasePath(u2.pathname))

\* isSameChapter on the parsed URLs
SameChapterUrls(u1, u2) ==
    IF ~u1.ok \/ ~u2.ok
    \* new URL throws; the catch block parses the same strings again, which
    \* throws again, and its inner catch returns false
    THEN FALSE
    ELSE IF u1.hostname # u2.hostname THEN FALSE
    ELSE IF u1.pathname = u2.pathname THEN TRUE
    ELSE SamePaths(ChapterCapture(u1.pathname), ChapterCapture(u2.pathname),
                   BasePath(u1.pathname), BasePath(u2.pathname))

isSameChapter(url1, url2) == SameChapterUrls(ParseUrl(url1), ParseUrl(url2))

(***************************************************************************)
(* cleanContent and extractTextWithParagraphs                              *)
(***************************************************************************)
\* the concatenation of pieces[lo..hi] (halving, so that long texts nest shallowly)
RECURSIVE ConcatRange(_, _, _)
ConcatRange(pieces, lo, hi) ==
    IF lo > hi THEN <<>>
    ELSE IF lo = hi THEN pieces[lo]
    ELSE LET mid == (lo + hi) \div 2
         IN ConcatRange(pieces, lo, mid) \o ConcatRange(pieces, mid + 1, hi)

Flatten(pieces) == ConcatRange(pieces, 1, Len(pieces))

\* content.replace(/\r\n/g, "\n").replace(/\r/g, "\n"): the \r of a \r\n goes,
\* any other \r becomes \n
NormalizeBreaks(s) ==
    Flatten([k \in 1..Len(s) |->
        IF s[k] = "\r" /\ k < Len(s) /\ s[k + 1] = "\n" THEN <<>>
        ELSE IF s[k] = "\r" THEN <<"\n">>
        ELSE <<s[k]>>])

\* a variant of the collapse that takes only the last blank out of a run
CollapseBlanksByOne(s) ==
    Flatten([k \in 1..Len(s) |->
        IF s[k] \in {" ", "\t"}
        THEN (IF k > 1 /\ s[k - 1] \in {" ", "\t"}
                 /\ (IF k = Len(s) THEN TRUE ELSE s[k + 1] \notin {" ", "\t"})
              THEN <<>> ELSE <<" ">>)
        ELSE <<s[k]>>])

\* line.replace(/[ \t]+/g, " "): the first blank of a run becomes a space, the
\* others go
CollapseBlanks(s) ==
    Flatten([k \in 1..Len(s) |->
        IF s[k] \in {" ", "\t"}
        THEN (IF k > 1 /\ s[k - 1] \in {" ", "\t"} THEN <<>> ELSE <<" ">>)
        ELSE <<s[k]>>])

\* text.replace(/\n{3,}/g, "\n\n"): of a run of line breaks the first two stay
CollapseNewlines(s) ==
    Flatten([k \in 1..Len(s) |->
        IF s[k] = "\n" /\ k >= 3 /\ s[k - 1] = "\n" /\ s[k - 2] = "\n"
        THEN <<>> ELSE <<s[k]>>])

\* the rejoin loop of cleanContent over processedLines[i..], with the loop's
\* result and prevWasEmpty
RECURSIVE RejoinLines(_, _, _, _)
RejoinLines(lines, i, result, prevWasEmpty) ==
    IF i > Len(lines) THEN result
    ELSE IF Len(lines[i]) = 0
    THEN RejoinLines(lines, i + 1,
                     IF ~prevWasEmpty /\ result # <<>>
                     THEN result \o <<"\n", "\n">> ELSE result,
                     TRUE)
    ELSE RejoinLines(lines, i + 1,
                     (IF result # <<>> /\ ~prevWasEmpty
                      THEN result \o <<"\n">> ELSE result) \o lines[i],
                     FALSE)

\* a variant of cleanContent that does not trim the lines
cleanContentUntrimmedLines(content) ==
    LET lines == Split(NormalizeBreaks(content), "\n")
        processedLines == [k \in 1..Len(lines) |-> CollapseBlanks(lines[k])]
        result == RejoinLines(processedLines, 1, <<>>, FALSE)
    IN Trim(CollapseNewlines(result))

cleanContent(content) ==
    LET lines == Split(NormalizeBreaks(content), "\n")
        processedLines == [k \in 1..Len(lines) |-> Trim(CollapseBlanks(lines[k]))]
        result == RejoinLines(processedLines, 1, <<>>, FALSE)
    IN Trim(CollapseNewlines(result))

\* extractTextWithParagraphs applied to an element whose text(), after its
\* <br> elements were replaced by line breaks, is text
extractTextWithParagraphs(text) == CollapseNewlines(text)

(***************************************************************************)
(* isSimplifiedChinese and convertToTraditional                            *)
(* Chinese characters are written as their code points.                    *)
(***************************************************************************)
simplifiedChars ==
    {"U+7B80", "U+4F53", "U+4E2D", "U+6587", "U+5E38", "U+89C1", "U+5B57", "U+7B26",
     "U+FF1A", "U+8FD9", "U+90A3", "U+4E2A", "U+4E3A", "U+4F1A", "U+65F6", "U+8BF4",
     "U+53EF", "U+4EE5"}

traditionalChars ==
    {"U+7E41", "U+9AD4", "U+4E2D", "U+6587", "U+5E38", "U+898B", "U+5B57", "U+7B26",
     "U+FF1A", "U+9019", "U+90A3", "U+500B", "U+70BA", "U+6703", "U+6642", "U+8AAA",
     "U+53EF", "U+4EE5"}

simplifiedOnly == {"U+7B80", "U+4F53"}

traditionalOnly == {"U+7E41", "U+9AD4"}

simplifiedPattern == {"U+8FD9", "U+4E3A", "U+4F1A", "U+8BF4", "U+65F6", "U+4E2A"}

traditionalPattern == {"U+9019", "U+70BA", "U+6703", "U+8AAA", "U+6642", "U+500B"}

\* (text.match(/[cs]/g) || []).length
CountIn(text, cs) ==
    LET Matches(c) == c \in cs
    IN Len(SelectSeq(text, Matches))

\* a variant of isSimplifiedChinese without the check for Traditional-only
\* characters
isSimplifiedChineseNoTraditionalOnly(text) ==
    IF CountIn(text, simplifiedChars) > CountIn(text, traditionalChars) THEN TRUE
    ELSE IF CountIn(text, simplifiedOnly) > 0 THEN TRUE
    ELSE CountIn(text, simplifiedPattern) > CountIn(text, traditionalPattern)

\* a variant of isSimplifiedChinese whose last comparison lets a tie through
isSimplifiedChineseOnTie(text) ==
    IF CountIn(text, simplifiedChars) > CountIn(text, traditionalChars) THEN TRUE
    ELSE IF CountIn(text, simplifiedOnly) > 0 THEN TRUE
    ELSE IF CountIn(text, traditionalOnly) > 0 THEN FALSE
    ELSE CountIn(text, simplifiedPattern) >= CountIn(text, traditionalPattern)

isSimplifiedChinese(text) ==
    IF CountIn(text, simplifiedChars) > CountIn(text, traditionalChars) THEN TRUE
    ELSE IF CountIn(text, simplifiedOnly) > 0 THEN TRUE
    ELSE IF CountIn(text, traditionalOnly) > 0 THEN FALSE
    ELSE CountIn(text, simplifiedPattern) > CountIn(text, traditionalPattern)

\* the external converter (OpenCC cn -> tw) on the characters modelled
ConverterPairs ==
    << <<"U+7B80", "U+7C21">>, <<"U+4F53", "U+9AD4">>, <<"U+89C1", "U+898B">>,
       <<"U+8FD9", "U+9019">>, <<"U+4E2A", "U+500B">>, <<"U+4E3A", "U+70BA">>,
       <<"U+4F1A", "U+6703">>, <<"U+65F6", "U+6642">>, <<"U+8BF4", "U+8AAA">> >>

converter(text) ==
    [k \in 1..Len(text) |->
        IF \E j \in 1..Len(ConverterPairs) : ConverterPairs[j][1] = text[k]
        THEN ConverterPairs[CHOOSE j \in 1..Len(ConverterPairs) :
                                ConverterPairs[j][1] = text[k]][2]
        ELSE text[k]]

\* a variant of convertToTraditional whose catch returns an empty text
convertToTraditionalOrEmpty(text, throws) == IF throws THEN <<>> ELSE converter(text)

\* convertToTraditional(text); throws: the external converter throws
convertToTraditional(text, throws) == IF throws THEN text ELSE converter(text)

\* title.replace(/\.txt$|\.md$/i, "")
sDotTxt == <<".", "t", "x", "t">>
sDotMd == <<".", "m", "d">>

StripTitleSuffix(title) ==
    IF LitAt(title, Len(title) - Len(sDotTxt) + 1, sDotTxt)
    THEN SubSeq(title, 1, Len(title) - Len(sDotTxt))
    ELSE IF LitAt(title, Len(title) - Len(sDotMd) + 1, sDotMd)
    THEN SubSeq(title, 1, Len(title) - Len(sDotMd))
    ELSE title

(***************************************************************************)
(* extractPageContent                                                      *)
(* A parsed page is a record of what the selectors of the source find:     *)
(*   h1, titleTag  text() of the first <h1> outside the elements that the   *)
(*                 noise selectors match, and of <title> ("" when none)    *)
(*   noiseH1       text() of an <h1> inside a nav, header, footer, aside   *)
(*                 or ad element that stands before every other <h1>, Null *)
(*                 when there is none                                      *)
(*   ogTitle       content of meta[property="og:title"], Null when none    *)
(*   containers    text of the first element of each content selector that *)
(*                 matches, in selector order                              *)
(*   body          text of <body> with the noise elements removed          *)
(*   next          resolved href of the first "next page" selector match,  *)
(*                 Null when none                                          *)
(*   links         resolved hrefs of all anchors, in document order        *)
(***************************************************************************)
ContainerMinLen == 100
BodyFallbackLen == 100

\* the loop over contentSelectors from container i on; content is the loop's
\* variable
RECURSIVE SelectContent(_, _, _)
SelectContent(containers, i, content) ==
    IF i > Len(containers) THEN content
    ELSE LET text == extractTextWithParagraphs(containers[i])
         IN IF Len(Trim(text)) > ContainerMinLen THEN text
            ELSE SelectContent(containers, i + 1, text)

\* $("script, style, nav, header, footer, aside, .ad, ...").remove(): the
\* elements go from the document itself, and every <h1> inside them with them
RemoveNoise(page) == [page EXCEPT !.noiseH1 = Null]

\* $("h1").first().text()
FirstH1(page) == IF page.noiseH1 # Null THEN page.noiseH1 ELSE page.h1

\* title: first non-empty of h1, <title>, og:title, "Untitled Novel"
PageTitle(page) ==
    IF Trim(FirstH1(page)) # <<>> THEN Trim(FirstH1(page))
    ELSE IF Trim(page.titleTag) # <<>> THEN Trim(page.titleTag)
    ELSE IF Truthy(page.ogTitle) THEN page.ogTitle
    ELSE <<"U", "n", "t", "i", "t", "l", "e", "d", " ", "N", "o", "v", "e", "l">>

extractPageContent(page) ==
    LET selected == SelectContent(page.containers, 1, <<>>)
        content == IF selected = <<>> \/ Len(Trim(selected)) < BodyFallbackLen
                   THEN extractTextWithParagraphs(page.body)
                   ELSE selected
    IN [title |-> PageTitle(RemoveNoise(page)), content |-> cleanContent(content)]

(***************************************************************************)
(* findNextPageLink                                                        *)
(***************************************************************************)
\* Array.prototype.indexOf-like: the first anchor whose URL carries the page
\* number nextPageNum, Null when none
LinkByPageNumber(links, nextPageNum) ==
    LET hits == {k \in 1..Len(links) : extractPageNumber(links[k]) = nextPageNum}
    IN IF hits = {} THEN Null ELSE links[SetMin(hits)]

\* a if it is truthy, else b
OrElse(a, b) == IF Truthy(a) THEN a ELSE b

\* findNextPageLink after const currentPageNum = extractPageNumber(currentUrl)
NextLinkFor(page, currentUrl, currentPageNum) ==
    IF Truthy(page.next) THEN page.next
    ELSE IF currentPageNum # NoNumber
    THEN OrElse(LinkByPageNumber(page.links, currentPageNum + 1),
                OrElse(constructNextPageUrl(currentUrl, currentPageNum, currentPageNum + 1),
                       Null))
    ELSE OrElse(constructNextPageUrl(currentUrl, 1, 2), Null)

findNextPageLink(page, currentUrl) ==
    NextLinkFor(page, currentUrl, extractPageNumber(currentUrl))

(***************************************************************************)
(* scrapeNovel: the pieces of the orchestrator                             *)
(***************************************************************************)
\* maxPages?: number is <<>> when absent and <<n>> when given
Undefined == <<>>

\* a variant of the mode test that sends maxPages = 0 into the loop
SingleModeNegativeOnly(mp) == IF mp = Undefined THEN TRUE ELSE mp[1] < 0

\* !maxPages || maxPages <= 0
SingleMode(mp) == IF mp = Undefined THEN TRUE ELSE mp[1] <= 0

MinContentLen == 50
AppendMinLen == 50
PartialMinLen == 100

PageSeparator == <<"\n", "\n", "-", "-", "-", "\n", "\n">>

\* a variant of the loop condition that lets the counter pass the cap
LoopCondInclusive(cur, visited, count, mp) ==
    /\ Truthy(cur)
    /\ cur \notin visited
    /\ count <= mp[1]

\* a variant of the loop condition that stops one page before the cap
LoopCondEarly(cur, visited, count, mp) ==
    /\ Truthy(cur)
    /\ cur \notin visited
    /\ count < mp[1] - 1

\* a variant of the loop condition without the page cap
LoopCondNoCap(cur, visited, count, mp) ==
    /\ Truthy(cur)
    /\ cur \notin visited

\* the condition of the while loop
LoopCond(cur, visited, count, mp) ==
    /\ Truthy(cur)
    /\ cur \notin visited
    /\ count < mp[1]

\* a variant of the title step in which every page overrides the title
KeepLastTitle(t, pageTitle) ==
    IF pageTitle # <<>> THEN pageTitle ELSE t

\* if (!title && pageData.title) title = pageData.title
KeepTitle(t, pageTitle) ==
    IF t = <<>> /\ pageTitle # <<>> THEN pageTitle ELSE t

\* a variant of the append test that takes content of 50 characters
AppendableFromMinimum(content) == content # <<>> /\ Len(Trim(content)) >= AppendMinLen

\* pageData.content && pageData.content.trim().length > 50
Appendable(content) == content # <<>> /\ Len(Trim(content)) > AppendMinLen

\* a variant of the append step that never writes the separator
AppendPageNoSeparator(buffer, content) ==
    IF Appendable(content) THEN buffer \o content ELSE buffer

\* a variant of the append step that writes the separator before every page
AppendPageAlwaysSeparator(buffer, content) ==
    IF Appendable(content) THEN buffer \o PageSeparator \o content ELSE buffer

\* the buffer after the append step of one page
AppendPage(buffer, content) ==
    IF Appendable(content)
    THEN (IF buffer # <<>> THEN buffer \o PageSeparator ELSE buffer) \o content
    ELSE buffer

\* a variant of the orchestrator's fallback that always constructs page 2
FallbackForPageTwo(cur, count, currentPageNum) == constructNextPageUrl(cur, 1, 2)

\* the orchestrator's own construction fallback, after
\* const currentPageNum = extractPageNumber(currentUrl)
FallbackFor(cur, count, currentPageNum) ==
    IF currentPageNum # NoNumber
    THEN constructNextPageUrl(cur, currentPageNum, currentPageNum + 1)
    ELSE IF count = 1 THEN constructNextPageUrl(cur, 1, 2)
    ELSE Null

\* the fallback, tried when findNextPageLink found nothing and the cap is not
\* reached
FallbackUrl(cur, count) == FallbackFor(cur, count, extractPageNumber(cur))

\* nextPageUrl and isConstructedUrl when the fallback was tried and gave built
Constructed(built) ==
    [url |-> built, isConstructedUrl |-> Truthy(built), triedFallback |-> TRUE]

\* nextPageUrl and isConstructedUrl after the "find next page link" step, where
\* findNextPageLink returned found
CandidateFor(found, cur, count, mp) ==
    IF ~Truthy(found) /\ count < mp[1]
    THEN Constructed(FallbackUrl(cur, count))
    ELSE [url |-> found, isConstructedUrl |-> FALSE, triedFallback |-> FALSE]

NextCandidate(page, cur, count, mp) ==
    CandidateFor(findNextPageLink(page, cur), cur, count, mp)

\* isSameChapter is evaluated only for a candidate that is there and was not
\* constructed by the fallback
GuardAsked(cand) == Truthy(cand.url) /\ ~cand.isConstructedUrl

\* a variant of shouldContinue that does not ask the guard
shouldContinueUnguarded(cand, baseUrl) == Truthy(cand.url)

shouldContinue(cand, baseUrl) ==
    /\ Truthy(cand.url)
    /\ (cand.isConstructedUrl \/ isSameChapter(baseUrl, cand.url))

\* a variant of the decision that does not look at the visited set
NextCurrentUnchecked(cand, baseUrl, visited) ==
    IF shouldContinue(cand, baseUrl) THEN cand.url ELSE Null

\* currentUrl after the decision at the end of the loop body
NextCurrent(cand, baseUrl, visited) ==
    IF shouldContinue(cand, baseUrl)
    THEN (IF cand.url \in visited THEN Null ELSE cand.url)
    ELSE Null

\* a variant of the catch that breaks whenever the buffer holds anything
AbsorbAnyContent(buffer) == buffer # <<>>

\* the catch of the loop body: TRUE for break, FALSE for throw pageError
AbsorbPageError(buffer) == buffer # <<>> /\ Len(buffer) > PartialMinLen

\* a variant of the gate that only rejects empty content
TooShortEmptyOnly(content) == content = <<>>

\* !content || content.length < 50
TooShort(content) == content = <<>> \/ Len(content) < MinContentLen

\* errors are Error objects with a message
Err(msg) == [isError |-> TRUE, message |-> msg]

ExtractionError ==
    Err("Could not extract meaningful content from the URL. The page structure may not be supported, or the content may be loaded dynamically via JavaScript.")
TimeoutError == Err("Request timed out. The website took too long to respond.")
NetworkError ==
    Err("Network error. Please check your internet connection and ensure the URL is accessible.")
FetchFailedError == Err("Failed to fetch URL: connect ECONNREFUSED")
HttpStatusError ==
    Err("Failed to fetch URL (404 Not Found). The website may be blocking requests or the page may not exist.")
EmptyHtmlError == Err("The website returned empty or invalid content.")
BodyReadError == Err("terminated")
GenericError ==
    Err("Failed to scrape novel from URL. Please try again or use a different URL.")

\* the outer catch of scrapeNovel
Rethrow(e) == IF e.isError THEN e ELSE GenericError

\* a variant of the conversion step that converts whatever the classifier says
ConvertAlways(simplified, text, throws) == convertToTraditional(text, throws)

\* text after "if (isSimplified) text = convertToTraditional(text)"
ConvertIf(simplified, text, throws) ==
    IF simplified THEN convertToTraditional(text, throws) ELSE text

\* the calls of convertToTraditional that scrapeNovel makes: on the content,
\* then on the title, when the content is classified as Simplified
ConverterCalls(simplified, content, t, throwsC, throwsT) ==
    IF simplified
    THEN <<[text |-> content, threw |-> throwsC], [text |-> t, threw |-> throwsT]>>
    ELSE <<>>

\* whether the external converter throws is open only when it is called
ThrowChoices(simplified) == IF simplified THEN BOOLEAN ELSE {FALSE}

\* the document returned: conversion when the content is Simplified Chinese
\* (simplified = isSimplifiedChinese(content)), then suffix stripping
\* (throwsC, throwsT: the converter throws on the content, on the title)
FinalDocument(t, content, simplified, throwsC, throwsT) ==
    [title |-> StripTitleSuffix(ConvertIf(simplified, t, throwsT)),
     content |-> ConvertIf(simplified, content, throwsC)]

(***************************************************************************)
(* The environment: the URLs of a site and the pages it serves             *)
(***************************************************************************)
\* bounds of the model
MaxPagesArg == 5
NumPages == 5

Rep(c, n) == [k \in 1..n |-> c]

HostA == <<"a">>
HostB == <<"b">>

\* http://a/ch2: another chapter of the same site
OtherChapterUrl == sHttp \o HostA \o <<"/", "c", "h", "2">>

\* the URL of page k of a chapter: http://<host>/ch1 and http://<host>/ch1?page=k
\* in the family "query", http://<host>/n/k.html in "html", http://<host>/pk
\* in "short"
FamilyUrl(fam, host, k) ==
    IF fam = "query"
    THEN sHttp \o host \o <<"/", "c", "h", "1">>
             \o (IF k = 1 THEN <<>> ELSE <<"?">> \o sPageEq \o ToStr(k))
    ELSE IF fam = "html" THEN sHttp \o host \o <<"/", "n", "/">> \o ToStr(k) \o sDotHtml
    ELSE sHttp \o host \o sSlashP \o ToStr(k)

StartUrls == {FamilyUrl("query", HostA, 1), FamilyUrl("html", HostA, 1),
              FamilyUrl("short", HostA, 3)}

\* the pages of the site: (family, host, index)
SitePlaces == {"query", "html", "short"} \X {HostA, HostB} \X (1..(NumPages + 6))

SiteUrl == [pl \in SitePlaces |-> FamilyUrl(pl[1], pl[2], pl[3])]

\* the URL of the page after u in its family (on the given host), Null when u
\* is not a page of the site
SuccUrl(u, host) ==
    LET places == {pl \in SitePlaces : SiteUrl[pl] = u}
    IN IF places = {} THEN Null
       ELSE LET pl == CHOOSE x \in places : TRUE
            IN FamilyUrl(pl[1], host, pl[3] + 1)

\* what a page can offer as links: next is what the "next page" selectors
\* find, links are all its anchors
LinkChoices(cur, origin) ==
    {[next |-> n, links |-> IF n = Null THEN <<>> ELSE <<n>>] :
        n \in {Null, SuccUrl(cur, HostA), cur, origin, OtherChapterUrl,
               SuccUrl(cur, HostB)}}
    \cup {[next |-> Null,
            links |-> SelectSeq(<<OtherChapterUrl, SuccUrl(cur, HostB), SuccUrl(cur, HostA)>>,
                                Truthy)]}

\* https://example.com/novel/ch1
ExampleUrl ==
    <<"h", "t", "t", "p", "s", ":", "/", "/", "e", "x", "a", "m", "p", "l", "e", ".", "c", "o",
      "m", "/", "n", "o", "v", "e", "l", "/", "c", "h", "1">>

\* cloned.find("br").replaceWith("\n"); cloned.text(): the text of an element
\* whose children are nodes, each <<"br">>, <<"#text", text>> or <<tag, text>>
\* for an element with that text: a <br> gives a line break, and the texts of
\* the other nodes follow one another with nothing between them
ElementText(nodes) ==
    Flatten([k \in 1..Len(nodes) |-> IF nodes[k][1] = "br" THEN <<"\n">> ELSE nodes[k][2]])

\* the documents a page can be; "traditional" is Traditional text under a
\* title with a Simplified character, the last one is Simplified; "hello" is
\*   <h1>Chapter One</h1><div class="content"><p>Hello</p><p>World</p></div>
\* and "paragraphs" the same with two paragraphs of 60 characters
Doc(id) ==
    IF id = "long" THEN
        [h1 |-> <<" ", "T", "1", ".", "t", "x", "t", " ">>, titleTag |-> <<"T", "2">>,
         ogTitle |-> Null,
         containers |-> << <<" ", " ">> \o Rep("a", 60) \o <<" ", "\t", " ">> \o Rep("b", 40)
                            \o <<"\r", "\n", "\n", "\n", "\n">> \o Rep("c", 10) \o <<"\n">> >>,
         body |-> Rep("x", 30)]
    ELSE IF id = "mid" THEN
        [h1 |-> <<>>, titleTag |-> <<"T", "2">>, ogTitle |-> <<"F", "o", "o">>,
         containers |-> << Rep("m", 60) >>,
         body |-> <<" ">> \o Rep("n", 30) \o <<" ", " ">> \o Rep("o", 24) \o <<"\n">>]
    ELSE IF id = "fifty" THEN
        [h1 |-> <<>>, titleTag |-> <<" ">>, ogTitle |-> <<"F", "o", "o">>,
         containers |-> <<>>,
         body |-> Rep("s", 50)]
    ELSE IF id = "short" THEN
        [h1 |-> <<>>, titleTag |-> <<>>, ogTitle |-> Null,
         containers |-> <<>>,
         body |-> Rep("e", 40)]
    ELSE IF id = "hello" THEN
        [h1 |-> <<"C", "h", "a", "p", "t", "e", "r", " ", "O", "n", "e">>,
         titleTag |-> <<>>, ogTitle |-> Null,
         containers |-> << ElementText(<< <<"p", <<"H", "e", "l", "l", "o">> >>,
                                         <<"p", <<"W", "o", "r", "l", "d">> >> >>) >>,
         body |-> ElementText(<< <<"h1", <<"C", "h", "a", "p", "t", "e", "r", " ", "O", "n", "e">> >>,
                                 <<"p", <<"H", "e", "l", "l", "o">> >>,
                                 <<"p", <<"W", "o", "r", "l", "d">> >> >>)]
    ELSE IF id = "paragraphs" THEN
        [h1 |-> <<"C", "h", "a", "p", "t", "e", "r", " ", "O", "n", "e">>,
         titleTag |-> <<>>, ogTitle |-> Null,
         containers |-> << ElementText(<< <<"p", Rep("H", 60)>>, <<"p", Rep("W", 60)>> >>) >>,
         body |-> ElementText(<< <<"h1", <<"C", "h", "a", "p", "t", "e", "r", " ", "O", "n", "e">> >>,
                                 <<"p", Rep("H", 60)>>, <<"p", Rep("W", 60)>> >>)]
    ELSE IF id = "traditional" THEN
        [h1 |-> <<"U+7E41", "U+9AD4", "U+8FD9", ".", "T", "X", "T">>, titleTag |-> <<>>,
         ogTitle |-> Null,
         containers |-> << Rep("U+9019", 101) >>,
         body |-> <<>>]
    ELSE
        [h1 |-> <<"U+7B80", "U+4F53", ".", "m", "d">>, titleTag |-> <<>>, ogTitle |-> Null,
         containers |-> << Rep("U+8FD9", 101) >>,
         body |-> <<>>]

\* the documents of the pages of a site, in the order they are served (repeating)
Profiles ==
    {<<id>> : id \in {"long", "mid", "fifty", "short", "simplified"}}
    \cup {<<"long", "mid">>, <<"mid", "long">>, <<"short", "long">>,
          <<"mid", "short", "long">>, <<"mid", "fifty", "mid">>}

\* the parsed page of document id with the given links
PageOf(id, lk) ==
    [h1 |-> Doc(id).h1, noiseH1 |-> Null, titleTag |-> Doc(id).titleTag,
     ogTitle |-> Doc(id).ogTitle,
     containers |-> Doc(id).containers, body |-> Doc(id).body,
     next |-> lk.next, links |-> lk.links]

\* a page without links
NoLinks == [next |-> Null, links |-> <<>>]

\* maxPages as the caller can pass it
MaxPagesValues ==
    {Undefined, <<-1>>, <<0>>, <<10>>} \cup {<<n>> : n \in 1..MaxPagesArg}

(***************************************************************************)
(* State                                                                   *)
(***************************************************************************)
VARIABLES
    request,      \* the call made from outside: the function and, for a function other
                  \* than scrapeNovel, its arguments
    pc,           \* where scrapeNovel is: start, loop, await_response, await_body,
                  \* delay, post, returned, failed
    url,          \* argument url (baseUrl)
    maxPages,     \* argument maxPages
    profile,      \* the documents the site serves, in order
    currentUrl,   \* let currentUrl
    fullContent,  \* let fullContent
    title,        \* let title
    visitedUrls,  \* let visitedUrls
    pageCount,    \* let pageCount
    fetchUrl,     \* argument of the fetchHtml call in progress
    timer,        \* fetchHtml's timeout timer: none, armed, cleared
    result,       \* <<>> or <<the ScrapedNovel returned>>
    error,        \* <<>> or <<the error thrown to the caller>>
    \* history, not read by the program
    fetched,      \* the URLs fetchHtml was called with, in order
    served,       \* the pages received and what was extracted from each, in order
    merged,       \* <<>> or <<content before conversion>> of the returned document
    calls,        \* how often extraction, location, guard, fallback and delay ran, and
                  \* the calls of convertToTraditional: the text, and whether the
                  \* converter threw
    raised        \* <<>> or <<the last error that left fetchHtml>>

vars == <<request, pc, url, maxPages, profile, currentUrl, fullContent, title, visitedUrls, pageCount,
          fetchUrl, timer, result, error, fetched, served, merged, calls, raised>>

loopVars == <<currentUrl, fullContent, title, visitedUrls, pageCount>>
history == <<fetched, served, merged, calls>>

Init ==
    /\ request = [fn |-> "scrapeNovel"]
    /\ pc = "start"
    /\ url \in StartUrls
    /\ maxPages \in MaxPagesValues
    /\ profile \in Profiles
    /\ currentUrl = Null
    /\ fullContent = <<>>
    /\ title = <<>>
    /\ visitedUrls = {}
    /\ pageCount = 0
    /\ fetchUrl = Null
    /\ timer = "none"
    /\ result = <<>>
    /\ error = <<>>
    /\ fetched = <<>>
    /\ served = <<>>
    /\ merged = <<>>
    /\ calls = [extract |-> 0, locate |-> 0, guard |-> 0, fallback |-> 0, delay |-> 0,
                convert |-> <<>>]
    /\ raised = <<>>

(***************************************************************************)
(* fetchHtml                                                               *)
(***************************************************************************)
\* the call fetchHtml(u): the timer is armed and the request goes out
StartFetch(u) ==
    /\ fetchUrl' = u
    /\ timer' = "armed"
    /\ fetched' = Append(fetched, u)
    /\ pc' = "await_response"
    /\ UNCHANGED <<result, error, served, merged, calls, raised>>

\* an error e leaves fetchHtml: in multi-page mode the catch of the loop body
\* breaks or rethrows, and the outer catch rethrows
Throw(e) ==
    /\ raised' = <<e>>
    /\ IF ~SingleMode(maxPages) /\ AbsorbPageError(fullContent)
       THEN pc' = "post" /\ UNCHANGED error
       ELSE pc' = "failed" /\ error' = <<Rethrow(e)>>

\* the response headers arrive with a success status
ResponseOk ==
    /\ pc = "await_response"
    /\ Len(served) < NumPages
    /\ timer' = "cleared"
    /\ pc' = "await_body"
    /\ UNCHANGED <<request, url, maxPages, profile, loopVars, fetchUrl, result, error, history, raised>>

\* the response headers arrive with a failure status
ResponseNotOk ==
    /\ pc = "await_response"
    /\ timer' = "cleared"
    /\ Throw(HttpStatusError)
    /\ UNCHANGED <<request, url, maxPages, profile, loopVars, fetchUrl, result, history>>

\* fetch rejects: a network failure (TypeError) or anything else
FetchRejected ==
    /\ pc = "await_response"
    /\ timer' = "cleared"
    /\ \E e \in {NetworkError, FetchFailedError} : Throw(e)
    /\ UNCHANGED <<request, url, maxPages, profile, loopVars, fetchUrl, result, history>>

\* the timer fires before the headers arrive: abort, and fetch rejects with
\* an AbortError
Timeout ==
    /\ pc = "await_response"
    /\ timer = "armed"
    /\ timer' = "cleared"
    /\ Throw(TimeoutError)
    /\ UNCHANGED <<request, url, maxPages, profile, loopVars, fetchUrl, result, history>>

\* the body is read and is shorter than 100 characters
BodyTooShort ==
    /\ pc = "await_body"
    /\ Throw(EmptyHtmlError)
    /\ UNCHANGED <<request, url, maxPages, profile, loopVars, fetchUrl, timer, result, history>>

\* response.text() rejects
BodyRejected ==
    /\ pc = "await_body"
    /\ Throw(BodyReadError)
    /\ UNCHANGED <<request, url, maxPages, profile, loopVars, fetchUrl, timer, result, history>>

(***************************************************************************)
(* scrapeNovel                                                             *)
(***************************************************************************)
\* a variant of the end of the loop body that goes on without the delay
AfterDecisionNoDelay(nextCurrent) == "loop"

\* where the loop body goes once currentUrl is decided: to
\* await delay(1000) when the crawl goes on, to the loop condition otherwise
AfterDecision(nextCurrent) == IF nextCurrent # Null THEN "delay" ELSE "loop"

\* the document of the page received next
NextDoc == profile[(Len(served) % Len(profile)) + 1]

\* what is recorded of a page received: its URL, its document and links, what
\* extractPageContent returned and the next-page candidate found
ServedEntry(id, lk, pageData, cand) ==
    [url |-> fetchUrl, doc |-> id, next |-> lk.next, links |-> lk.links,
     title |-> pageData.title, content |-> pageData.content,
     nextPageUrl |-> cand.url, isConstructedUrl |-> cand.isConstructedUrl]

\* scrapeNovel(url, maxPages) is called in single-page mode
CallSingle ==
    /\ pc = "start"
    /\ SingleMode(maxPages)
    /\ StartFetch(url)
    /\ UNCHANGED <<request, url, maxPages, profile, loopVars>>

\* scrapeNovel(url, maxPages) is called in multi-page mode
CallMulti ==
    /\ pc = "start"
    /\ ~SingleMode(maxPages)
    /\ currentUrl' = url
    /\ fullContent' = <<>>
    /\ title' = <<>>
    /\ visitedUrls' = {}
    /\ pageCount' = 0
    /\ pc' = "loop"
    /\ UNCHANGED <<request, url, maxPages, profile, fetchUrl, timer, result, error, history, raised>>

\* the while condition is evaluated; the iteration starts with the fetch
LoopHead ==
    /\ pc = "loop"
    /\ IF LoopCond(currentUrl, visitedUrls, pageCount, maxPages)
       THEN /\ pageCount' = pageCount + 1
            /\ visitedUrls' = visitedUrls \cup {currentUrl}
            /\ StartFetch(currentUrl)
            /\ UNCHANGED <<currentUrl, fullContent, title>>
       ELSE /\ pc' = "post"
            /\ UNCHANGED <<loopVars, fetchUrl, timer, result, error, history, raised>>
    /\ UNCHANGED <<request, url, maxPages, profile>>

\* single-page mode: the HTML arrives, is parsed and extracted, and scrapeNovel
\* returns or throws (extraction does not read the links of the page)
SinglePage ==
    /\ pc = "await_body"
    /\ SingleMode(maxPages)
    /\ \E pageData \in {extractPageContent(PageOf(NextDoc, NoLinks))} :
          /\ \E lk \in LinkChoices(fetchUrl, url) :
                served' = Append(served, ServedEntry(NextDoc, lk, pageData,
                    [url |-> Null, isConstructedUrl |-> FALSE, triedFallback |-> FALSE]))
          /\ IF TooShort(pageData.content)
             THEN /\ pc' = "failed"
                  /\ error' = <<Rethrow(ExtractionError)>>
                  /\ calls' = [calls EXCEPT !.extract = @ + 1]
                  /\ UNCHANGED <<result, merged>>
             ELSE /\ pc' = "returned"
                  /\ merged' = <<pageData.content>>
                  /\ \E simplified \in {isSimplifiedChinese(pageData.content)} :
                        \E throwsC \in ThrowChoices(simplified),
                           throwsT \in ThrowChoices(simplified) :
                           /\ result' = <<FinalDocument(pageData.title, pageData.content,
                                                        simplified, throwsC, throwsT)>>
                           /\ calls' = [calls EXCEPT
                                  !.extract = @ + 1,
                                  !.convert = ConverterCalls(simplified, pageData.content,
                                                             pageData.title, throwsC, throwsT)]
                  /\ UNCHANGED error
    /\ UNCHANGED <<request, url, maxPages, profile, loopVars, fetchUrl, timer, fetched, raised>>

\* multi-page mode: the HTML arrives and the rest of the loop body runs, up to
\* the delay or the end of the iteration
MultiPage ==
    /\ pc = "await_body"
    /\ ~SingleMode(maxPages)
    /\ \E pageData \in {extractPageContent(PageOf(NextDoc, NoLinks))} :
          /\ title' = KeepTitle(title, pageData.title)
          /\ fullContent' = AppendPage(fullContent, pageData.content)
          /\ \E lk \in LinkChoices(fetchUrl, url) :
               \E cand \in {NextCandidate(PageOf(NextDoc, lk), currentUrl, pageCount,
                                          maxPages)} :
                    /\ served' = Append(served, ServedEntry(NextDoc, lk, pageData, cand))
                    /\ currentUrl' = NextCurrent(cand, url, visitedUrls)
                    /\ calls' = [calls EXCEPT
                           !.extract = @ + 1,
                           !.locate = @ + 1,
                           !.fallback = @ + (IF cand.triedFallback THEN 1 ELSE 0),
                           !.guard = @ + (IF GuardAsked(cand) THEN 1 ELSE 0)]
    /\ pc' = AfterDecision(currentUrl')
    /\ UNCHANGED <<request, url, maxPages, profile, visitedUrls, pageCount, fetchUrl, timer, result,
                   error, fetched, merged, raised>>

\* await delay(1000) ends
DelayDone ==
    /\ pc = "delay"
    /\ calls' = [calls EXCEPT !.delay = @ + 1]
    /\ pc' = "loop"
    /\ UNCHANGED <<request, url, maxPages, profile, loopVars, fetchUrl, timer, result, error, fetched,
                   served, merged, raised>>

\* after the loop: the minimum-length gate, conversion, return
PostLoop ==
    /\ pc = "post"
    /\ IF TooShort(fullContent)
       THEN /\ pc' = "failed"
            /\ error' = <<Rethrow(ExtractionError)>>
            /\ UNCHANGED <<result, merged, fullContent, title, calls>>
       ELSE \E simplified \in {isSimplifiedChinese(fullContent)} :
               /\ pc' = "returned"
               /\ merged' = <<fullContent>>
               /\ \E throwsC \in ThrowChoices(simplified),
                     throwsT \in ThrowChoices(simplified) :
                     /\ fullContent' = ConvertIf(simplified, fullContent, throwsC)
                     /\ title' = ConvertIf(simplified, title, throwsT)
                     /\ result' = <<FinalDocument(title, fullContent, simplified,
                                                  throwsC, throwsT)>>
                     /\ calls' = [calls EXCEPT
                            !.convert = ConverterCalls(simplified, fullContent, title,
                                                       throwsC, throwsT)]
               /\ UNCHANGED error
    /\ UNCHANGED <<request, url, maxPages, profile, currentUrl, visitedUrls, pageCount, fetchUrl,
                   timer, fetched, served, raised>>

Next ==
    \/ CallSingle
    \/ CallMulti
    \/ LoopHead
    \/ ResponseOk
    \/ ResponseNotOk
    \/ FetchRejected
    \/ Timeout
    \/ BodyTooShort
    \/ BodyRejected
    \/ SinglePage
    \/ MultiPage
    \/ DelayDone
    \/ PostLoop

Spec == Init /\ [][Next]_vars

\* scrapeNovel runs on: no await is left pending for ever, every fetch
\* returns or fails, and the statements between two awaits are executed
LiveSpec == Spec /\ WF_vars(Next)

(***************************************************************************)
(* The route: POST parses the body of the request and calls scrapeNovel    *)
(***************************************************************************)
MaxPagesCeiling == 500

\* a variant of the route's computation that passes pageCount on as it is
RouteMaxPagesUnclamped(bodyPageCount) ==
    IF bodyPageCount.type = "number" /\ bodyPageCount.value > 0
    THEN <<bodyPageCount.value>>
    ELSE Undefined

\* pageCount && typeof pageCount === "number" && pageCount > 0
\*     ? Math.min(pageCount, 500) : undefined
RouteMaxPages(bodyPageCount) ==
    IF bodyPageCount.type = "number" /\ bodyPageCount.value > 0
    THEN <<IF bodyPageCount.value < MaxPagesCeiling THEN bodyPageCount.value ELSE MaxPagesCeiling>>
    ELSE Undefined

\* what the body of a request can carry as pageCount: nothing, a string, a number
PageCountValues ==
    {[type |-> "undefined"], [type |-> "string", text |-> "600"]}
    \cup {[type |-> "number", value |-> n] :
             n \in {-1, 0, 2, MaxPagesCeiling, MaxPagesCeiling + 1, 2 * MaxPagesCeiling}}

\* a request arrives; the site serves Latin, Simplified or Traditional text
RouteInit ==
    /\ request \in {[fn |-> "POST", pageCount |-> v] : v \in PageCountValues}
    /\ pc = "route"
    /\ url \in {ExampleUrl, FamilyUrl("query", HostA, 1)}
    /\ maxPages = Undefined
    /\ profile \in {<<"hello">>, <<"paragraphs">>, <<"mid">>, <<"simplified">>,
                    <<"traditional">>, <<"simplified", "traditional">>}
    /\ currentUrl = Null
    /\ fullContent = <<>>
    /\ title = <<>>
    /\ visitedUrls = {}
    /\ pageCount = 0
    /\ fetchUrl = Null
    /\ timer = "none"
    /\ result = <<>>
    /\ error = <<>>
    /\ fetched = <<>>
    /\ served = <<>>
    /\ merged = <<>>
    /\ calls = [extract |-> 0, locate |-> 0, guard |-> 0, fallback |-> 0, delay |-> 0,
                convert |-> <<>>]
    /\ raised = <<>>

\* POST, from the parsing of the body to the call scrapeNovel(url, maxPages)
POST ==
    /\ pc = "route"
    /\ maxPages' = RouteMaxPages(request.pageCount)
    /\ pc' = "start"
    /\ UNCHANGED <<request, url, profile, loopVars, fetchUrl, timer, result, error, history,
                   raised>>

RouteNext == POST \/ Next

RouteSpec == RouteInit /\ [][RouteNext]_vars

(***************************************************************************)
(* The functions of the scraper called on their own                        *)
(***************************************************************************)
\* the strings isSameChapter is called with: URLs of two hosts (one written in
\* upper case as well) with paths with and without chapter numbers, page
\* numbers and queries, and strings that new URL() rejects
GuardUrls ==
    {sHttp \o h \o p :
        h \in {HostA, HostB, <<"A">>},
        p \in {<<>>,
               <<"/", "c", "/", "1">>,
               <<"/", "c", "/", "1", "?", "p", "a", "g", "e", "=", "1">>,
               <<"/", "c", "/", "1", "?", "p", "a", "g", "e", "=", "2">>,
               <<"/", "c", "h", "a", "p", "t", "e", "r", "/", "1">>,
               <<"/", "c", "h", "a", "p", "t", "e", "r", "/", "1", "/", "2">>,
               <<"/", "C", "h", "a", "p", "t", "e", "r", "-", "0", "1">>,
               <<"/", "c", "h", "1", "2", "/", "p", "3">>,
               <<"/", "b", "/", "c", "h", "_", "1", "2", "?", "x", "=", "1">>,
               <<"/", "c", "h", "2", "/", "c", "h", "1">>,
               <<"/", "n", "/", "1", ".", "h", "t", "m", "l">>,
               <<"/", "n", "/", "7">>}}
    \cup {<<>>, <<"/", "c", "/", "1">>, <<"a", ".", "c", "o", "m">>, sHttp,
          <<"n", "o", "t", " ", "a", " ", "U", "R", "L">>}

\* bound of the model: the longest text cleanContent is called with
MaxCleanLen == 5

\* the texts cleanContent is called with: every text of spaces, tabs, \r, \n
\* and a letter up to the bound, and two longer ones
CleanInputs ==
    UNION {[1..n -> {" ", "\t", "\r", "\n", "a"}] : n \in 0..MaxCleanLen}
    \cup {<<" ", " ", "A", " ", " ", " ", "B", " ", " ">>,
          <<"A", " ", "\t", "B", "\r", "\n", "\r", "\n", "\n", " ", "C", "\n", "D", "\n">>}

\* the pages extractPageContent is called with: every combination of an <h1>,
\* a <title> and an og:title that is missing, empty, blank or filled, with and
\* without an <h1> in the <header> of the page, around one body; and every
\* page of up to two containers of 99, 100, 101 or, in blanks, 100
\* characters around a short or a long body
ExtractInputs ==
    {[h1 |-> h, noiseH1 |-> n, titleTag |-> t, ogTitle |-> og, containers |-> <<>>,
      body |-> Rep("x", 60), next |-> Null, links |-> <<>>] :
        h \in {<<>>, <<" ">>, <<"H">>, <<" ", "H", "\n">>},
        n \in {Null, <<"S">>},
        t \in {<<>>, <<" ">>, <<"T">>, <<"\n", "T", " ">>},
        og \in {Null, <<>>, <<" ">>, <<"F", "o", "o">>}}
    \cup
    {[h1 |-> <<"H">>, noiseH1 |-> Null, titleTag |-> <<>>, ogTitle |-> Null,
      containers |-> cs, body |-> b, next |-> Null, links |-> <<>>] :
        cs \in UNION {[1..n -> {Rep("c", 99), Rep("d", 100), Rep("e", 101),
                                <<" ">> \o Rep("f", 100) \o <<"\n">>}] : n \in 0..2},
        b \in {Rep("x", 60), Rep("y", 120)}}

\* bound of the model: the longest text isSimplifiedChinese is called with
MaxTextLen == 4

\* the texts isSimplifiedChinese is called with: every text up to the bound
\* of a Simplified-only and a Traditional-only character, the two forms of
\* a character of the variant pairs, the two forms of a character counted
\* only by the first comparison, a character common to both scripts and a
\* Latin letter
ClassifierInputs ==
    UNION {[1..n -> {"U+7B80", "U+7E41", "U+8FD9", "U+9019", "U+89C1", "U+898B",
                     "U+4E2D", "a"}] : n \in 0..MaxTextLen}

\* a function is called on its own with arguments drawn from its inputs
UnitInit ==
    /\ request \in {[fn |-> "isSameChapter", url1 |-> u1, url2 |-> u2] :
                        u1 \in GuardUrls, u2 \in GuardUrls}
                   \cup {[fn |-> "cleanContent", content |-> s] : s \in CleanInputs}
                   \cup {[fn |-> "extractPageContent", page |-> p] : p \in ExtractInputs}
                   \cup {[fn |-> "isSimplifiedChinese", text |-> s] :
                            s \in ClassifierInputs}
    /\ pc = "call"
    /\ url = Null
    /\ maxPages = Undefined
    /\ profile = <<>>
    /\ currentUrl = Null
    /\ fullContent = <<>>
    /\ title = <<>>
    /\ visitedUrls = {}
    /\ pageCount = 0
    /\ fetchUrl = Null
    /\ timer = "none"
    /\ result = <<>>
    /\ error = <<>>
    /\ fetched = <<>>
    /\ served = <<>>
    /\ merged = <<>>
    /\ calls = [extract |-> 0, locate |-> 0, guard |-> 0, fallback |-> 0, delay |-> 0,
                convert |-> <<>>]
    /\ raised = <<>>

\* isSameChapter(url1, url2) returns
CallIsSameChapter ==
    /\ pc = "call"
    /\ request.fn = "isSameChapter"
    /\ result' = <<isSameChapter(request.url1, request.url2)>>
    /\ calls' = [calls EXCEPT !.guard = @ + 1]
    /\ pc' = "returned"
    /\ UNCHANGED <<request, url, maxPages, profile, loopVars, fetchUrl, timer, error, fetched,
                   served, merged, raised>>

\* cleanContent(content) returns
CallCleanContent ==
    /\ pc = "call"
    /\ request.fn = "cleanContent"
    /\ result' = <<cleanContent(request.content)>>
    /\ pc' = "returned"
    /\ UNCHANGED <<request, url, maxPages, profile, loopVars, fetchUrl, timer, error, history,
                   raised>>

\* extractPageContent($) returns
CallExtractPageContent ==
    /\ pc = "call"
    /\ request.fn = "extractPageContent"
    /\ result' = <<extractPageContent(request.page)>>
    /\ calls' = [calls EXCEPT !.extract = @ + 1]
    /\ pc' = "returned"
    /\ UNCHANGED <<request, url, maxPages, profile, loopVars, fetchUrl, timer, error, fetched,
                   served, merged, raised>>

\* isSimplifiedChinese(text) returns
CallIsSimplifiedChinese ==
    /\ pc = "call"
    /\ request.fn = "isSimplifiedChinese"
    /\ result' = <<isSimplifiedChinese(request.text)>>
    /\ pc' = "returned"
    /\ UNCHANGED <<request, url, maxPages, profile, loopVars, fetchUrl, timer, error, history,
                   raised>>

UnitNext ==
    \/ CallIsSameChapter
    \/ CallCleanContent
    \/ CallExtractPageContent
    \/ CallIsSimplifiedChinese

UnitSpec == UnitInit /\ [][UnitNext]_vars

(***************************************************************************)
(* Properties of the crawl                                                 *)
(***************************************************************************)
MultiMode == ~SingleMode(maxPages)

\* the page cap of a multi-page invocation (0 in single-page mode)
Cap == IF SingleMode(maxPages) THEN 0 ELSE maxPages[1]

Ended == pc \in {"returned", "failed"}

NoDuplicates(seq) == \A i, j \in 1..Len(seq) : seq[i] = seq[j] => i = j

LastServed == served[Len(served)]

\* the iteration that received the last page is over and the next has not begun
AfterPage == MultiMode /\ pc \in {"delay", "loop"} /\ Len(served) > 0

\* the number of page separators in a text
SeparatorCount(text) == Cardinality({i \in 1..Len(text) : ExactAt(text, i, PageSeparator)})

\* the pre-conversion buffer: fullContent until the return, merged after it
Buffer == IF pc = "returned" THEN merged[1] ELSE fullContent

\* C1: in a multi-page invocation the visited set only grows, no URL is fetched
\* twice, and the URL an iteration starts with, like the URL the loop variable
\* holds between iterations, is never one already visited
C1_VisitedGrowsNoRefetch ==
    /\ [][visitedUrls \subseteq visitedUrls']_vars
    /\ [](NoDuplicates(fetched))
    /\ [](pc \in {"loop", "delay"} /\ currentUrl # Null => currentUrl \notin visitedUrls)
    /\ [][Len(fetched') > Len(fetched) => fetchUrl' \notin visitedUrls]_vars

\* a page linked back to the origin, the guard accepted the link, and the crawl
\* stopped instead of fetching the origin again
C1_Witness ==
    /\ AfterPage
    /\ Len(served) >= 2
    /\ LastServed.nextPageUrl = url
    /\ url \in visitedUrls
    /\ currentUrl = Null

\* C2: in multi-page mode the page counter starts at 0, grows by exactly one
\* with every fetch and not otherwise, and never exceeds maxPages; so the
\* number of fetches never exceeds maxPages
C2_PageCounterBounded ==
    /\ [](pc = "start" => pageCount = 0)
    /\ [](MultiMode => pageCount <= Cap /\ Len(fetched) = pageCount)
    /\ [][pageCount' = pageCount \/ pageCount' = pageCount + 1]_vars
    /\ [][MultiMode => (pageCount' = pageCount + 1) = (Len(fetched') = Len(fetched) + 1)]_vars

\* the cap stopped a crawl that had another page to go to
C2_Witness ==
    /\ MultiMode
    /\ pc = "post"
    /\ Cap >= 3
    /\ pageCount = Cap
    /\ currentUrl # Null

\* the "next page" anchor of a served page is accepted by the guard
ChainLink(e) == Truthy(e.next) /\ isSameChapter(url, e.next)

\* the first served page whose next-page anchor leads to a page already
\* fetched; 0 when there is none
CycleClosesAt ==
    FirstPos({IF \E j \in 1..i : served[j].url = served[i].next THEN i ELSE 0 :
                 i \in 1..Len(served)})

\* a crawl with maxPages = 5 has ended on a chain in which every page received
\* has a next-page anchor the guard accepts, and no fetch within the cap failed
C3_Chain ==
    /\ maxPages = <<5>>
    /\ Ended
    /\ (Len(served) = Len(fetched) \/ Len(served) >= 5)
    /\ \A i \in 1..Len(served) : ChainLink(served[i])

\* C3 as stated: on a cyclic or infinite chain with maxPages = 5 the crawl
\* makes exactly 5 fetches and returns successfully
C3_AsStated == C3_Chain => Len(fetched) = 5 /\ pc = "returned"

\* C3: on such a chain with maxPages = 5 the crawl makes exactly 5 fetches when
\* the chain leads to a new URL every time, and stops at the page that closes
\* the cycle when it leads back to a fetched URL; it returns successfully
\* exactly when some page received had content of trimmed length above 50
C3_CrawlCapRespected ==
    C3_Chain =>
        /\ Len(fetched) = (IF CycleClosesAt = 0 THEN 5 ELSE CycleClosesAt)
        /\ (pc = "returned") = (\E i \in 1..Len(served) : Appendable(served[i].content))
        /\ pc = "failed" => error = <<ExtractionError>>

\* five pages of an endless chain were fetched and the crawl returned
C3_Witness ==
    /\ C3_Chain
    /\ CycleClosesAt = 0
    /\ Len(fetched) = 5
    /\ pc = "returned"

\* a crawl with maxPages = 10 has ended on a site of 3 pages with contents of
\* trimmed length above 50: pages 1 and 2 link to the next page by a next-page
\* anchor, page 3 has no anchor at all
C4_Site ==
    /\ maxPages = <<10>>
    /\ Ended
    /\ Len(served) = 3
    /\ served[1].next = served[2].url
    /\ served[2].next = served[3].url
    /\ served[3].next = Null
    /\ served[3].links = <<>>
    /\ \A i \in 1..3 : Appendable(served[i].content) /\ SeparatorCount(served[i].content) = 0

\* C4 as stated: on such a site exactly 3 URLs are fetched, no fourth fetch is
\* attempted, and the content returned holds exactly 2 separators
C4_AsStated ==
    C4_Site => Len(fetched) = 3 /\ pc = "returned" /\ SeparatorCount(merged[1]) = 2

\* the URL findNextPageLink constructs from the URL u of a page without anchors
ConstructedAfter(u) ==
    IF extractPageNumber(u) # NoNumber
    THEN constructNextPageUrl(u, extractPageNumber(u), extractPageNumber(u) + 1)
    ELSE constructNextPageUrl(u, 1, 2)

\* the crawl goes on to the URL constructed from the URL u of the third page
GoesOnAfter(u) ==
    /\ Truthy(ConstructedAfter(u))
    /\ isSameChapter(url, ConstructedAfter(u))
    /\ ConstructedAfter(u) \notin {served[i].url : i \in 1..3}

\* C4: on such a site the 3 pages are fetched; a fourth fetch is attempted
\* exactly when a next URL can be constructed from the URL of page 3 that the
\* guard accepts and that was not visited, and it is that URL; when that
\* fetch fails, or there is none, the content returned holds exactly 2
\* separators
C4_ChainEndTermination ==
    C4_Site =>
        /\ pc = "returned"
        /\ SeparatorCount(merged[1]) = 2
        /\ Len(fetched) = (IF GoesOnAfter(served[3].url) THEN 4 ELSE 3)
        /\ Len(fetched) = 4 => fetched[4] = ConstructedAfter(served[3].url)

\* the three pages were fetched, the fetch of a constructed fourth URL failed,
\* and the content of the three pages was returned
C4_Witness ==
    /\ C4_Site
    /\ Len(fetched) = 4
    /\ pc = "returned"

\* C5: the candidate found on a page becomes the current URL only if the guard
\* isSameChapter(origin, candidate) holds or the candidate was constructed by
\* the orchestrator's fallback, and only if it is not in the visited set;
\* otherwise the current URL is null
C5_CandidateAcceptance ==
    AfterPage =>
        currentUrl =
            (IF /\ Truthy(LastServed.nextPageUrl)
                /\ (IF LastServed.isConstructedUrl THEN TRUE
                    ELSE isSameChapter(url, LastServed.nextPageUrl))
                /\ LastServed.nextPageUrl \notin visitedUrls
             THEN LastServed.nextPageUrl
             ELSE Null)

\* a candidate of another chapter was found and refused by the guard
C5_Witness ==
    /\ AfterPage
    /\ LastServed.nextPageUrl = OtherChapterUrl
    /\ ~isSameChapter(url, OtherChapterUrl)
    /\ currentUrl = Null

\* the content the minimum-length gate looks at
GatedContent == IF SingleMode(maxPages) THEN served[1].content ELSE Buffer

\* C6: a scrape whose fetches all succeeded and whose final merged content,
\* before conversion, is shorter than 50 characters fails with the extraction
\* error; no document returned has pre-conversion content shorter than 50
C6_MinimumLengthGate ==
    /\ pc = "returned" => Len(merged[1]) >= 50
    /\ (Ended /\ Len(served) = Len(fetched) /\ Len(GatedContent) < 50) =>
           (pc = "failed" /\ error = <<ExtractionError>> /\ result = <<>>)

\* a page whose only extractable text is 40 characters long was rejected
C6_Witness ==
    /\ pc = "failed"
    /\ error = <<ExtractionError>>
    /\ Len(served) = 1
    /\ Len(served[1].content) = 40

\* a step of a multi-page crawl in which fetchHtml threw
PageErrorStep ==
    /\ MultiMode
    /\ pc \in {"await_response", "await_body"}
    /\ pc' \in {"post", "failed"}

\* C7: when a page of a multi-page crawl raises an error and the buffer holds
\* more than 100 characters, nothing is thrown, the buffer is kept and the
\* document returned is built from it; when the buffer holds 100 characters
\* or fewer, the error raised is the error thrown and no document is returned
C7_PartialFailurePolicy ==
    /\ [][PageErrorStep =>
            /\ raised' # <<>>
            /\ result' = <<>>
            /\ IF Len(fullContent) > 100
               THEN pc' = "post" /\ error' = <<>> /\ fullContent' = fullContent
               ELSE pc' = "failed" /\ error' = raised']_vars
    /\ [][pc = "post" /\ raised # <<>> =>
            /\ pc' = "returned"
            /\ error' = <<>>
            /\ merged' = <<fullContent>>
            /\ result' # <<>>]_vars
    /\ [](pc = "failed" => result = <<>> /\ error # <<>>)

\* a later page failed, the buffer was kept and a document was returned
C7_Witness ==
    /\ MultiMode
    /\ pc = "returned"
    /\ raised # <<>>
    /\ Len(served) >= 1
    /\ Len(fetched) = Len(served) + 1

\* maxPages is absent or not positive
AbsentOrNotPositive == IF maxPages = <<>> THEN TRUE ELSE maxPages[1] <= 0

\* C8: when maxPages is absent or not positive there is exactly one fetch, of
\* the URL given, and one extraction before scrapeNovel returns or fails;
\* next-page location, URL construction, the guard, the delay and the loop
\* are never executed
C8_SinglePageMode ==
    AbsentOrNotPositive =>
        /\ Len(fetched) <= 1
        /\ calls.extract <= 1
        /\ calls.locate = 0 /\ calls.fallback = 0 /\ calls.guard = 0 /\ calls.delay = 0
        /\ pc \notin {"loop", "delay", "post"}
        /\ Ended => fetched = <<url>>
        /\ pc = "returned" => calls.extract = 1 /\ Len(served) = 1

\* a call with maxPages = 0 returned the page it was given, which had links
C8_Witness ==
    /\ maxPages = <<0>>
    /\ pc = "returned"
    /\ Truthy(served[1].next)

\* the contents of the pages received that the append step takes
AppendedContents ==
    LET Taken(e) == Len(Trim(e.content)) > 50
        kept == SelectSeq(served, Taken)
    IN [i \in 1..Len(kept) |-> kept[i].content]

\* C9: in multi-page mode the buffer is the cleaned contents of the pages
\* received whose trimmed length is above 50, in fetch order, joined by the
\* separator; it neither starts nor ends with a separator and holds one
\* separator less than pages appended
C9_BufferIsJoinOfPages ==
    MultiMode =>
        /\ Buffer = Join(AppendedContents, PageSeparator)
        /\ ~ExactAt(Buffer, 1, PageSeparator)
        /\ ~ExactAt(Buffer, Len(Buffer) - Len(PageSeparator) + 1, PageSeparator)
        /\ SeparatorCount(Buffer) =
               (IF Len(AppendedContents) = 0 THEN 0 ELSE Len(AppendedContents) - 1)

\* three pages were received, the second was skipped, the other two appended
C9_Witness ==
    /\ MultiMode
    /\ Len(served) = 3
    /\ Len(AppendedContents) = 2
    /\ Len(Trim(served[2].content)) <= 50
    /\ SeparatorCount(Buffer) = 1

\* the title of the first page received that has one
FirstTitle ==
    LET hits == {i \in 1..Len(served) : served[i].title # <<>>}
    IN IF hits = {} THEN <<>> ELSE served[SetMin(hits)].title

\* C10: during a multi-page crawl the title is the title of the first page
\* that yielded a non-empty one, and once set it changes only in the step
\* after the loop
C10_TitleFixedByFirstPage ==
    /\ [][MultiMode /\ title # <<>> /\ pc # "post" => title' = title]_vars
    /\ [](MultiMode /\ pc # "returned" => title = FirstTitle)

\* a second page with another title was received and the title stayed
C10_Witness ==
    /\ MultiMode
    /\ pc # "returned"
    /\ Len(served) >= 2
    /\ served[2].title # served[1].title
    /\ title = served[1].title

(***************************************************************************)
(* Properties of a request                                                 *)
(***************************************************************************)
\* the body of the request asked for more pages than the ceiling
AskedBeyondCeiling ==
    IF request.pageCount.type = "number"
    THEN request.pageCount.value > MaxPagesCeiling
    ELSE FALSE

\* C11: a scrape requested through POST with a page count above 500 runs with
\* maxPages = 500 whatever the count requested; no request runs with a cap
\* above 500, and the number of fetches never exceeds the cap (one fetch
\* without a cap), so never 500
C11_HardCeiling ==
    pc # "route" =>
        /\ AskedBeyondCeiling => maxPages = <<MaxPagesCeiling>>
        /\ IF SingleMode(maxPages)
           THEN Len(fetched) <= 1
           ELSE maxPages[1] <= MaxPagesCeiling /\ Len(fetched) <= maxPages[1]
        /\ Len(fetched) <= MaxPagesCeiling

\* a request for 1000 pages crawled several pages under the cap 500
C11_Witness ==
    /\ AskedBeyondCeiling
    /\ request.pageCount.value = 2 * MaxPagesCeiling
    /\ maxPages = <<MaxPagesCeiling>>
    /\ Len(fetched) >= 3
    /\ pc = "returned"

ChapterOne == <<"C", "h", "a", "p", "t", "e", "r", " ", "O", "n", "e">>

\* scrape on https://example.com/novel/ch1 with maxPages absent has received
\* the page doc and has ended
Scenario(doc) ==
    /\ request.pageCount.type = "undefined"
    /\ url = ExampleUrl
    /\ profile = <<doc>>
    /\ Len(served) = 1

\* C12: the scenario with <h1>Chapter One</h1> and <p>Hello</p><p>World</p>
\* returns successfully with title "Chapter One" and content "Hello\n\nWorld",
\* the two paragraphs separated by one blank line
C12_EndToEndSinglePage ==
    Scenario("hello") =>
        /\ pc = "returned"
        /\ result = <<[title |-> ChapterOne,
                       content |-> <<"H", "e", "l", "l", "o", "\n", "\n",
                                     "W", "o", "r", "l", "d">>]>>

\* what scrape does in the scenario: the title extracted is "Chapter One"; the
\* text of the two paragraphs is taken without a break between them; with
\* <p>Hello</p><p>World</p> the container is too short, the text of the body,
\* "Chapter OneHelloWorld", is the content, and scrape fails with the
\* extraction error; with two paragraphs of 60 characters scrape returns title
\* "Chapter One" and the two paragraphs joined without a break
ScenarioOutcome ==
    /\ Scenario("hello") =>
          /\ served[1].title = ChapterOne
          /\ served[1].content = ChapterOne \o <<"H", "e", "l", "l", "o", "W", "o", "r", "l", "d">>
          /\ pc = "failed"
          /\ error = <<ExtractionError>>
          /\ result = <<>>
    /\ Scenario("paragraphs") =>
          /\ pc = "returned"
          /\ result = <<[title |-> ChapterOne, content |-> Rep("H", 60) \o Rep("W", 60)]>>

\* the scenario page was fetched and extracted and scrape has failed
C12_Witness ==
    /\ Scenario("hello")
    /\ calls.extract = 1
    /\ Len(fetched) = 1
    /\ pc = "failed"

(***************************************************************************)
(* Properties of isSameChapter                                             *)
(***************************************************************************)
\* isSameChapter(url1, url2) has returned
GuardReturned == request.fn = "isSameChapter" /\ pc = "returned"

\* both arguments parse as URLs
BothParse == ParseUrl(request.url1).ok /\ ParseUrl(request.url2).ok

SameHost == ParseUrl(request.url1).hostname = ParseUrl(request.url2).hostname

SamePath == ParseUrl(request.url1).pathname = ParseUrl(request.url2).pathname

\* C13: for two parseable URLs whose hostnames differ isSameChapter returns
\* false, whatever their paths and queries
C13_GuardDifferentHost ==
    GuardReturned /\ BothParse /\ ~SameHost => result = <<FALSE>>

\* http://a/c/1 against http://b/c/1 was answered
C13_Witness ==
    /\ GuardReturned
    /\ request.url1 = sHttp \o HostA \o <<"/", "c", "/", "1">>
    /\ request.url2 = sHttp \o HostB \o <<"/", "c", "/", "1">>
    /\ result = <<FALSE>>

\* C14: for two parseable URLs of the same hostname and the same path
\* isSameChapter returns true whatever their queries; isSameChapter(u, u) is
\* true
C14_GuardSamePath ==
    GuardReturned /\ BothParse /\ SameHost /\ SamePath => result = <<TRUE>>

\* a URL with ?page=1 against the same URL with ?page=2, and a URL against
\* itself, were answered
C14_Witness ==
    /\ GuardReturned
    /\ BothParse
    /\ SamePath
    /\ request.url1 = sHttp \o HostA \o <<"/", "c", "/", "1", "?">> \o sPageEq \o <<"1">>
    /\ request.url2 \in {request.url1,
                          sHttp \o HostA \o <<"/", "c", "/", "1", "?">> \o sPageEq \o <<"2">>}
    /\ result = <<TRUE>>

\* two parseable URLs of one host with different paths, both holding a
\* chapter/ch + number pattern
TwoChapterNumbers ==
    /\ BothParse
    /\ SameHost
    /\ ~SamePath
    /\ ChapterCapture(ParseUrl(request.url1).pathname) # Null
    /\ ChapterCapture(ParseUrl(request.url2).pathname) # Null

\* C19 as stated: for such URLs isSameChapter returns true if and only if the
\* two chapter numbers are equal
C19_AsStated ==
    GuardReturned /\ TwoChapterNumbers =>
        result[1] = (ParseInt(ChapterCapture(ParseUrl(request.url1).pathname))
                       = ParseInt(ChapterCapture(ParseUrl(request.url2).pathname)))

\* C19: for such URLs isSameChapter returns true if and only if the digits
\* that the first chapter/ch + number pattern of each path captures are the
\* same text; equal numbers written differently (01 and 1) do not match
C19_GuardChapterNumbers ==
    GuardReturned /\ TwoChapterNumbers =>
        result[1] = (ChapterCapture(ParseUrl(request.url1).pathname)
                       = ChapterCapture(ParseUrl(request.url2).pathname))

\* /chapter/1 against /chapter/1/2 was accepted
C19_Witness ==
    /\ GuardReturned
    /\ TwoChapterNumbers
    /\ ChapterCapture(ParseUrl(request.url1).pathname) = <<"1">>
    /\ ChapterCapture(ParseUrl(request.url2).pathname) = <<"1">>
    /\ result = <<TRUE>>

CleanReturned == request.fn = "cleanContent" /\ pc = "returned"

\* C15: cleanContent(cleanContent(s)) = cleanContent(s) for every text s of
\* spaces, tabs, \r, \n and ordinary characters, and cleanContent("") = ""
C15_NormalizerIdempotent ==
    CleanReturned =>
        /\ cleanContent(result[1]) = result[1]
        /\ request.content = <<>> => result[1] = <<>>

\* a text that cleanContent changes was cleaned
C15_Witness ==
    /\ CleanReturned
    /\ request.content = <<"a", " ", " ", "\n", "a">>
    /\ result = << <<"a", "\n", "a">> >>

\* the line has no blank at either end and no two blanks in a row
TidyLine(line) ==
    /\ line # <<>> => line[1] \notin {" ", "\t"} /\ line[Len(line)] \notin {" ", "\t"}
    /\ \A k \in 1..(Len(line) - 1) :
          ~(line[k] \in {" ", "\t"} /\ line[k + 1] \in {" ", "\t"})

\* the lines of a text, a line ending at \r\n, \r or \n, each with its runs
\* of blanks collapsed and its ends trimmed, the empty ones left out
TrimmedLines(text) ==
    LET lines == Split(NormalizeBreaks(text), "\n")
    IN NonEmpty([k \in 1..Len(lines) |-> Trim(CollapseBlanks(lines[k]))])

\* C16: the output of cleanContent holds no run of three or more line breaks,
\* no \r, no line with a blank at either end or with two blanks in a row, and
\* no whitespace at either end; the non-empty lines of the input, trimmed and with
\* their runs of blanks collapsed, are the non-empty lines of the output, in
\* order; "A\n\n\nB" becomes "A\n\nB" and "  A   B  " becomes "A B"
C16_NormalizerOutputShape ==
    CleanReturned =>
        /\ \A k \in 1..(Len(result[1]) - 2) :
              ~(result[1][k] = "\n" /\ result[1][k + 1] = "\n" /\ result[1][k + 2] = "\n")
        /\ \A k \in 1..Len(result[1]) : result[1][k] # "\r"
        /\ \A k \in 1..Len(Split(result[1], "\n")) : TidyLine(Split(result[1], "\n")[k])
        /\ result[1] # <<>> =>
              /\ result[1][1] \notin {" ", "\t", "\n"}
              /\ result[1][Len(result[1])] \notin {" ", "\t", "\n"}
        /\ NonEmpty(Split(result[1], "\n")) = TrimmedLines(request.content)
        /\ request.content = <<"a", "\n", "\n", "\n", "a">>
              => result[1] = <<"a", "\n", "\n", "a">>
        /\ request.content = <<" ", " ", "A", " ", " ", " ", "B", " ", " ">>
              => result[1] = <<"A", " ", "B">>

\* "  A   B  " was cleaned to "A B"
C16_Witness ==
    /\ CleanReturned
    /\ request.content = <<" ", " ", "A", " ", " ", " ", "B", " ", " ">>
    /\ result = << <<"A", " ", "B">> >>

(***************************************************************************)
(* Properties of extractPageContent                                        *)
(***************************************************************************)
\* extractPageContent has returned
ExtractReturned == request.fn = "extractPageContent" /\ pc = "returned"

\* C17: the title extracted is the trimmed text of the first <h1> of the page
\* if that is not empty, else the trimmed text of <title> if that is not
\* empty, else the content of og:title if there is one and it is not empty,
\* else "Untitled Novel"; it is never empty, and a page with no <h1>, no
\* <title> and og:title "Foo" has the title "Foo"
C17_TitleResolutionOrder ==
    ExtractReturned =>
        /\ result[1].title # <<>>
        /\ result[1].title =
              (IF Trim(FirstH1(request.page)) # <<>> THEN Trim(FirstH1(request.page))
               ELSE IF Trim(request.page.titleTag) # <<>> THEN Trim(request.page.titleTag)
               ELSE IF request.page.ogTitle \notin {Null, <<>>} THEN request.page.ogTitle
               ELSE <<"U", "n", "t", "i", "t", "l", "e", "d", " ", "N", "o", "v", "e", "l">>)
        /\ (/\ FirstH1(request.page) = <<>>
            /\ request.page.titleTag = <<>>
            /\ request.page.ogTitle = <<"F", "o", "o">>) => result[1].title = <<"F", "o", "o">>

\* what extractPageContent does: the title is resolved in that order among
\* the <h1> elements left after the noise elements were removed
TitleOutcome ==
    ExtractReturned =>
        /\ result[1].title # <<>>
        /\ result[1].title =
              (IF Trim(request.page.h1) # <<>> THEN Trim(request.page.h1)
               ELSE IF Trim(request.page.titleTag) # <<>> THEN Trim(request.page.titleTag)
               ELSE IF request.page.ogTitle \notin {Null, <<>>} THEN request.page.ogTitle
               ELSE <<"U", "n", "t", "i", "t", "l", "e", "d", " ", "N", "o", "v", "e", "l">>)

\* a page whose first <h1> stands in its <header>, with a <title>, got the
\* title of <title>
C17_Witness ==
    /\ ExtractReturned
    /\ request.page.noiseH1 = <<"S">>
    /\ request.page.h1 = <<" ">>
    /\ request.page.titleTag = <<"\n", "T", " ">>
    /\ request.page.ogTitle = <<"F", "o", "o">>
    /\ result[1].title = <<"T">>

\* the containers of the page whose trimmed text is longer than 100
\* characters
Qualifying ==
    {i \in 1..Len(request.page.containers) : Len(Trim(request.page.containers[i])) > 100}

\* the content when the text chosen for it is text
ContentFrom(text) == cleanContent(CollapseNewlines(text))

\* C23: the content is the text of the first container whose trimmed text
\* is longer than 100 characters; when there is none, one of exactly 100
\* characters included, it is the text of the body, whatever its length
C23_ContentSelection ==
    ExtractReturned =>
        result[1].content =
            ContentFrom(IF Qualifying # {}
                        THEN request.page.containers[SetMin(Qualifying)]
                        ELSE request.page.body)

\* what extractPageContent does: without a container of more than 100
\* characters the content is the text of the last container when that is
\* 100 characters long, and the text of the body otherwise
SelectionOutcome ==
    ExtractReturned =>
        result[1].content =
            ContentFrom(IF Qualifying # {}
                        THEN request.page.containers[SetMin(Qualifying)]
                        ELSE IF /\ request.page.containers # <<>>
                                /\ Len(Trim(request.page.containers[
                                        Len(request.page.containers)])) = 100
                        THEN request.page.containers[Len(request.page.containers)]
                        ELSE request.page.body)

\* a page whose only container is 100 characters long came back with the
\* text of the container, not of the body
C23_Witness ==
    /\ ExtractReturned
    /\ request.page.containers = << Rep("d", 100) >>
    /\ request.page.body = Rep("y", 120)
    /\ result[1].content = Rep("d", 100)

(***************************************************************************)
(* Properties of the script conversion                                     *)
(***************************************************************************)
\* a scrapeNovel call has returned a document
ScrapeReturned == pc = "returned" /\ request.fn \in {"scrapeNovel", "POST"}

\* what convertToTraditional returns for a call recorded in the history
Converted(call) == IF call.threw THEN call.text ELSE converter(call.text)

\* C18: the converter is called exactly when the merged content is classified
\* as Simplified, and then on the content and on the title; otherwise the
\* returned content is the merged buffer and the returned title is the
\* title of the first page with only its suffix stripped
C18_ConversionOnlyWhenWarranted ==
    /\ ~ScrapeReturned => calls.convert = <<>>
    /\ ScrapeReturned =>
          IF isSimplifiedChinese(merged[1])
          THEN /\ Len(calls.convert) = 2
               /\ calls.convert[1].text = merged[1]
               /\ calls.convert[2].text = served[1].title
               /\ result[1].content = Converted(calls.convert[1])
               /\ result[1].title = StripTitleSuffix(Converted(calls.convert[2]))
          ELSE /\ calls.convert = <<>>
               /\ result[1].content = merged[1]
               /\ result[1].title = StripTitleSuffix(served[1].title)

\* a crawl of Simplified and Traditional pages in equal parts returned its
\* buffer as merged, although the converter would have changed it
UnconvertedMix ==
    /\ ScrapeReturned
    /\ ~isSimplifiedChinese(merged[1])
    /\ converter(merged[1]) # merged[1]
    /\ result[1].content = merged[1]

\* a Simplified page came back with content and title converted
C18_Witness ==
    /\ ScrapeReturned
    /\ isSimplifiedChinese(merged[1])
    /\ result[1].content # merged[1]
    /\ result[1].title # StripTitleSuffix(served[1].title)

(***************************************************************************)
(* Properties of isSimplifiedChinese                                       *)
(***************************************************************************)
\* isSimplifiedChinese has returned
ClassifierReturned == pc = "returned" /\ request.fn = "isSimplifiedChinese"

\* the number of characters of the text in the set cs
Occurrences(cs) == Cardinality({k \in 1..Len(request.text) : request.text[k] \in cs})

\* the text has no Simplified-exclusive character
NoSimplifiedOnly == Occurrences({"U+7B80", "U+4F53"}) = 0

\* the text has a Traditional-exclusive character
SomeTraditionalOnly == Occurrences({"U+7E41", "U+9AD4"}) > 0

\* the text has more characters of the set that the first comparison counts
\* as Simplified than of the set it counts as Traditional
MoreSimplifiedForms ==
    Occurrences({"U+7B80", "U+4F53", "U+89C1", "U+8FD9", "U+4E2A", "U+4E3A", "U+4F1A",
                 "U+65F6", "U+8BF4"})
        > Occurrences({"U+7E41", "U+9AD4", "U+898B", "U+9019", "U+500B", "U+70BA",
                       "U+6703", "U+6642", "U+8AAA"})

\* the text has more Simplified than Traditional characters of the variant
\* pairs
MoreSimplifiedPairs ==
    Occurrences({"U+8FD9", "U+4E3A", "U+4F1A", "U+8BF4", "U+65F6", "U+4E2A"})
        > Occurrences({"U+9019", "U+70BA", "U+6703", "U+8AAA", "U+6642", "U+500B"})

\* C21 as stated: a text with a Traditional-exclusive and no
\* Simplified-exclusive character is classified as not Simplified, whatever
\* else it contains
C21_AsStated ==
    ClassifierReturned /\ NoSimplifiedOnly /\ SomeTraditionalOnly => result[1] = FALSE

\* C21: a text with a Traditional-exclusive and no Simplified-exclusive
\* character is classified as Simplified exactly when it has more
\* characters counted as Simplified than characters counted as Traditional
C21_TraditionalExclusive ==
    ClassifierReturned /\ NoSimplifiedOnly /\ SomeTraditionalOnly
        => result[1] = MoreSimplifiedForms

\* a text with a Traditional-exclusive character and more Simplified than
\* Traditional characters of the variant pairs came back as not Simplified
C21_Witness ==
    /\ ClassifierReturned
    /\ NoSimplifiedOnly
    /\ SomeTraditionalOnly
    /\ MoreSimplifiedPairs
    /\ result[1] = FALSE

\* C22 as stated: a text without exclusive characters is classified as
\* Simplified only if it has strictly more Simplified than Traditional
\* characters of the variant pairs
C22_AsStated ==
    ClassifierReturned /\ NoSimplifiedOnly /\ ~SomeTraditionalOnly /\ result[1] = TRUE
        => MoreSimplifiedPairs

\* C22: a text without exclusive characters is classified as Simplified
\* exactly when it has strictly more characters counted as Simplified than
\* counted as Traditional, or strictly more Simplified than Traditional
\* characters of the variant pairs
C22_VariantPairCounts ==
    ClassifierReturned /\ NoSimplifiedOnly /\ ~SomeTraditionalOnly
        => result[1] = (MoreSimplifiedForms \/ MoreSimplifiedPairs)

\* a text with as many Simplified as Traditional characters of the variant
\* pairs, and some of them, came back as not Simplified
C22_Witness ==
    /\ ClassifierReturned
    /\ NoSimplifiedOnly
    /\ ~SomeTraditionalOnly
    /\ Occurrences({"U+8FD9"}) > 0
    /\ Occurrences({"U+8FD9"}) = Occurrences({"U+9019"})
    /\ Occurrences({"U+89C1"}) = Occurrences({"U+898B"})
    /\ result[1] = FALSE

(***************************************************************************)
(* Properties of the URL construction fallback                             *)
(***************************************************************************)
\* the pattern of extractPageNumber that yields the page number of u, 0 when
\* none does
PatternOf(u) ==
    LET hits == {k \in 1..Len(PageNumberCaptures(u)) : PageNumberCaptures(u)[k] # Null}
    IN IF hits = {} THEN 0 ELSE SetMin(hits)

\* no anchor of the page served as e leads to the next page
NoAnchorFound(e) ==
    /\ ~Truthy(e.next)
    /\ \A k \in 1..Len(e.links) :
          extractPageNumber(e.links[k]) # extractPageNumber(e.url) + 1

\* u with the query parameter page=2 appended
WithPageTwo(u) ==
    u \o (IF ParseUrl(u).search = <<>> THEN <<"?">> ELSE <<"&">>) \o sPageEq \o <<"2">>

\* C24: a next URL synthesized when no anchor was found carries the page
\* number n + 1 in the pattern the page number n of the current URL came
\* from; for a current URL without a page number it is the current URL with
\* page=2 appended, and the page is the first of the crawl
C24_ConstructionFallback ==
    \A i \in 1..Len(served) :
        MultiMode /\ NoAnchorFound(served[i]) /\ Truthy(served[i].nextPageUrl) =>
            IF extractPageNumber(served[i].url) # NoNumber
            THEN /\ PatternOf(served[i].nextPageUrl) = PatternOf(served[i].url)
                 /\ extractPageNumber(served[i].nextPageUrl)
                        = extractPageNumber(served[i].url) + 1
            ELSE /\ served[i].nextPageUrl = WithPageTwo(served[i].url)
                 /\ i = 1

\* on a later page of a crawl, whose URL has no page number and which has no
\* anchor to a next page, a next URL with another path was synthesized
C24_Witness ==
    /\ MultiMode
    /\ \E i \in 2..Len(served) :
          /\ NoAnchorFound(served[i])
          /\ extractPageNumber(served[i].url) = NoNumber
          /\ Truthy(served[i].nextPageUrl)
          /\ ParseUrl(served[i].nextPageUrl).pathname # ParseUrl(served[i].url).pathname

(***************************************************************************)
(* Properties of fetchHtml                                                 *)
(***************************************************************************)
\* fetchHtml has been called and has neither returned nor thrown
InFetch == pc \in {"await_response", "await_body"}

\* C25: while a fetch waits for the response headers or for the response
\* body the timeout timer is armed, so that a fetch stalled at either stage
\* is aborted
C25_FetchBoundedByTimeout == InFetch => timer = "armed"

\* a fetch waits for the body of a response whose headers have arrived
C25_Witness ==
    /\ pc = "await_body"
    /\ fetched # <<>>
    /\ fetchUrl = fetched[Len(fetched)]
    /\ timer = "cleared"

(***************************************************************************)
(* Properties of the delay between requests                                *)
(***************************************************************************)
\* C26: in a multi-page crawl every fetch but the first starts after a delay
\* that followed the fetch before it: when the fetch starts, as many delays
\* have elapsed as fetches were made before
C26_InterRequestDelay ==
    [][MultiMode /\ Len(fetched') > Len(fetched) /\ fetched # <<>>
          => calls.delay = Len(fetched) /\ calls'.delay = calls.delay]_vars

\* the third fetch of a crawl has started, after two delays
C26_Witness ==
    /\ MultiMode
    /\ pc = "await_response"
    /\ Len(fetched) = 3
    /\ calls.delay = 2

(***************************************************************************)
(* Properties of a failing converter                                       *)
(***************************************************************************)
\* the converter threw in the k-th call of convertToTraditional
ConverterThrew(k) == Len(calls.convert) >= k /\ calls.convert[k].threw

\* C27: when the converter throws on the content or on the title,
\* scrapeNovel still returns a document, with the content as merged or the
\* title of the first page with only its suffix stripped; no call fails
\* once the conversion has begun
C27_ConversionFailuresAbsorbed ==
    /\ calls.convert # <<>> => ScrapeReturned /\ Len(result) = 1 /\ error = <<>>
    /\ ConverterThrew(1) => result[1].content = merged[1]
    /\ ConverterThrew(2) => result[1].title = StripTitleSuffix(served[1].title)

\* a crawl of Simplified pages returned its content unconverted, the
\* converter having thrown on it, under a converted title
C27_Witness ==
    /\ MultiMode
    /\ ScrapeReturned
    /\ isSimplifiedChinese(merged[1])
    /\ ConverterThrew(1)
    /\ ~ConverterThrew(2)
    /\ result[1].content = merged[1]
    /\ result[1].title # StripTitleSuffix(served[1].title)

(***************************************************************************)
(* Properties of the URLs a crawl fetches                                  *)
(***************************************************************************)
\* findNextPageLink found nothing on the page served as e
NothingFound(e) ==
    ~Truthy(findNextPageLink([next |-> e.next, links |-> e.links], e.url))

\* C28: in a multi-page crawl every URL is, when it is fetched, on the host
\* of the origin, and every one after the origin passes
\* isSameChapter(origin, URL); no candidate is a URL constructed by the
\* orchestrator's fallback: a page on which findNextPageLink finds nothing
\* has no candidate at all
C28_FetchedUrlsGuarded ==
    [][MultiMode =>
          /\ Len(fetched') > Len(fetched) =>
                /\ ParseUrl(fetched'[Len(fetched')]).hostname = ParseUrl(url).hostname
                /\ fetched # <<>> => isSameChapter(url, fetched'[Len(fetched')])
          /\ Len(served') > Len(served) =>
                /\ ~served'[Len(served')].isConstructedUrl
                /\ NothingFound(served'[Len(served')])
                      => served'[Len(served')].nextPageUrl = Null]_vars

\* the fallback was tried on the second page of a crawl, on which
\* findNextPageLink had found nothing, and gave nothing
C28_Witness ==
    /\ MultiMode
    /\ Len(served) = 2
    /\ calls.fallback = 1
    /\ NothingFound(served[2])
    /\ served[2].nextPageUrl = Null
    /\ isSameChapter(url, fetched[2])

(***************************************************************************)
(* Properties of the two modes on one page                                 *)
(***************************************************************************)
\* scrapeNovel(url) or scrapeNovel(url, 1) has ended after its one page was
\* received
OnePageRun ==
    /\ request.fn = "scrapeNovel"
    /\ pc \in {"returned", "failed"}
    /\ SingleMode(maxPages) \/ maxPages = <<1>>
    /\ Len(served) = 1
    /\ raised = <<>>

\* single-page mode fails on a page with this content
SingleModeFails(content) == Len(content) < 50

\* multi-page mode with maxPages = 1 fails on a page with this content: the
\* content is not appended, or the buffer is too short
OnePageCrawlFails(content) == Len(content) <= 50

\* the run ended as a run of the mode with the given rule ends on its page:
\* with the extraction error, or with a document made of the title and the
\* content of the page
EndsAs(fails) ==
    IF fails
    THEN pc = "failed" /\ error = <<ExtractionError>> /\ result = <<>>
    ELSE /\ pc = "returned"
         /\ result[1].content \in {served[1].content, converter(served[1].content)}
         /\ result[1].title \in {StripTitleSuffix(served[1].title),
                                  StripTitleSuffix(converter(served[1].title))}

\* C29 as stated: on every page, content of exactly 50 characters included,
\* scrapeNovel(url) and scrapeNovel(url, 1) end alike: each ends as the other
\* mode ends on that page
C29_AsStated ==
    OnePageRun =>
        IF SingleMode(maxPages)
        THEN EndsAs(OnePageCrawlFails(served[1].content))
        ELSE EndsAs(SingleModeFails(served[1].content))

\* C29: scrapeNovel(url) and scrapeNovel(url, 1) end alike on every page
\* whose content is not exactly 50 characters long; on content of exactly 50
\* characters single-page mode returns the document and multi-page mode with
\* maxPages = 1 fails with the extraction error
C29_ModesAgreeButAtFifty ==
    OnePageRun =>
        IF Len(served[1].content) = 50
        THEN EndsAs(~SingleMode(maxPages))
        ELSE /\ SingleModeFails(served[1].content) = OnePageCrawlFails(served[1].content)
             /\ EndsAs(SingleModeFails(served[1].content))

\* scrapeNovel(url, 1) failed on a page with content of 50 characters
C29_Witness ==
    /\ OnePageRun
    /\ maxPages = <<1>>
    /\ Len(served[1].content) = 50
    /\ pc = "failed"
    /\ error = <<ExtractionError>>

(***************************************************************************)
(* Termination                                                             *)
(***************************************************************************)
\* the pages the crawl may still fetch
PagesLeft == Cap - pageCount

\* C30: a crawl with a positive maxPages ends, with a document or with an
\* error; the loop cannot go on for ever, as every iteration takes one from
\* the number of pages left, which never falls below 0
C30_CrawlTerminates ==
    /\ MultiMode => <>Ended
    /\ [][MultiMode /\ pc = "loop" /\ pc' = "await_response"
            => PagesLeft' < PagesLeft /\ PagesLeft' >= 0]_vars

\* a crawl that went on to its cap of five pages has ended
C30_Witness ==
    /\ MultiMode
    /\ Ended
    /\ pageCount = 5
    /\ Cap = 5
    /\ Len(served) = 5

====
